---- MODULE Spec2Model ----
(***************************************************************************)
(* Model of the fusion-router configuration generator (src/app.py).       *)
(*                                                                         *)
(* Text is modelled at character level: a Python str is a sequence of     *)
(* one-character strings, so that startswith / strip / split / `in` and   *)
(* the regular expressions are computed as the code computes them.        *)
(* Python's None is the one-element sequence None, which no text equals   *)
(* (its element is not a single character).                                *)
(***************************************************************************)
EXTENDS Integers, Sequences, FiniteSets, TLC

VARIABLES
    phase,            \* position of the modelled call sequence
    border_node_ip,   \* argument of calculate_fusion_router_ip
    fusion_ip,        \* its result
    back_ip,          \* result of applying it to its own result
    typed,            \* number of dot-separated fields of border_node_ip
    pool,             \* which configuration lines the uploaded text is made of
    text,             \* the uploaded configuration text, as its lines
    parsed,           \* parse() of the uploaded text
    parsed_numbered,  \* parse() of the same text with a line-number gutter
    upload,           \* what upload_configs answers for the uploaded text
    fusion_routers,   \* the fusion_routers list of a generate request
    ibgp_params,      \* its ibgp_params dict
    ibgp,             \* what build_ibgp_configs returned or raised
    handoff_list,     \* the handoffs list of a generate request
    call,             \* the other arguments of generate_fusion_router_config
    synth,            \* what generate_fusion_router_config returned or raised
    request,          \* the vrf_configs and ospf_params of a generate request
    response,         \* what generate_config answered
    rd_text,          \* a route distinguisher text, as the pieces typed so far
    rd_result,        \* what validate_route_distinguisher said of it
    ospf_request,     \* the ospf_params of a generate request
    ospf_edits,       \* how many of its fields were changed from a documented example
    ospf              \* what build_ospf_configs returned or raised

addrVars == <<border_node_ip, fusion_ip, back_ip, typed>>
parserVars == <<pool, text, parsed, parsed_numbered, upload>>
ibgpVars == <<fusion_routers, ibgp_params, ibgp>>
synthVars == <<handoff_list, call, synth>>
genVars == <<request, response>>
valVars == <<rd_text, rd_result, ospf_request, ospf_edits, ospf>>
vars == <<phase, addrVars, parserVars, ibgpVars, synthVars, genVars, valVars>>

\* ------------------------------------------------------------------ bounds
MaxOctets == 4        \* dot-separated fields of an address text
MaxLines == 4         \* lines of an uploaded configuration text
MaxRouters == 2       \* entries of the fusion_routers list
MaxHandoffs == 3      \* entries of the handoffs list
MaxPieces == 4        \* pieces of a route distinguisher text
MaxEdits == 2         \* fields of ospf_params changed from an example

\* ------------------------------------------------------- Python str model
None == <<"None">>
Unset == <<"Unset">>

Digits == {"0", "1", "2", "3", "4", "5", "6", "7", "8", "9"}
DigitVal(c) ==
    CASE c = "0" -> 0 [] c = "1" -> 1 [] c = "2" -> 2 [] c = "3" -> 3
      [] c = "4" -> 4 [] c = "5" -> 5 [] c = "6" -> 6 [] c = "7" -> 7
      [] c = "8" -> 8 [] c = "9" -> 9
DigitChar(n) ==
    CASE n = 0 -> "0" [] n = 1 -> "1" [] n = 2 -> "2" [] n = 3 -> "3"
      [] n = 4 -> "4" [] n = 5 -> "5" [] n = 6 -> "6" [] n = 7 -> "7"
      [] n = 8 -> "8" [] n = 9 -> "9"

\* str.startswith
StartsWith(s, p) == Len(s) >= Len(p) /\ SubSeq(s, 1, Len(p)) = p

\* str.find, 1-based; 0 when absent
Find(s, p) ==
    LET hits == {i \in 1..(Len(s) - Len(p) + 1) : SubSeq(s, i, i + Len(p) - 1) = p}
    IN IF hits = {} THEN 0 ELSE CHOOSE i \in hits : \A j \in hits : i <= j

\* `p in s`
Contains(s, p) == Find(s, p) # 0

\* str.split(sep)
RECURSIVE Split(_, _)
Split(s, sep) ==
    LET i == Find(s, sep)
    IN IF i = 0 THEN <<s>>
       ELSE <<SubSeq(s, 1, i - 1)>> \o Split(SubSeq(s, i + Len(sep), Len(s)), sep)

\* str.split(sep, 1)
SplitOnce(s, sep) ==
    LET i == Find(s, sep)
    IN IF i = 0 THEN <<s>>
       ELSE <<SubSeq(s, 1, i - 1), SubSeq(s, i + Len(sep), Len(s))>>

\* the whitespace str.strip() and str.split() remove, within the alphabet
Whitespace == {" ", "\t", "\r"}

RECURSIVE LStrip(_)
LStrip(s) == IF s # <<>> /\ Head(s) \in Whitespace THEN LStrip(Tail(s)) ELSE s
RECURSIVE RStrip(_)
RStrip(s) ==
    IF s # <<>> /\ s[Len(s)] \in Whitespace THEN RStrip(SubSeq(s, 1, Len(s) - 1)) ELSE s
Strip(s) == RStrip(LStrip(s))

\* length of the longest prefix of s made of characters of set cs
RECURSIVE Span(_, _)
Span(s, cs) == IF s # <<>> /\ Head(s) \in cs THEN 1 + Span(Tail(s), cs) ELSE 0
Drop(s, n) == SubSeq(s, n + 1, Len(s))

\* length of the leading run of non-whitespace characters of s
RECURSIVE SpanToken(_)
SpanToken(s) == IF s # <<>> /\ Head(s) \notin Whitespace THEN 1 + SpanToken(Tail(s)) ELSE 0

\* str.split() with no argument: the whitespace-delimited tokens
RECURSIVE SplitWS(_)
SplitWS(s) ==
    LET t == LStrip(s)
        k == SpanToken(t)
    IN IF t = <<>> THEN <<>> ELSE <<SubSeq(t, 1, k)>> \o SplitWS(Drop(t, k))

\* int(s) for a string of at most three decimal digits
RECURSIVE DecValue(_)
DecValue(s) == IF s = <<>> THEN 0 ELSE 10 * DecValue(SubSeq(s, 1, Len(s) - 1)) + DigitVal(s[Len(s)])

\* str(n) for 0 <= n <= 999
DecString(n) ==
    IF n < 10 THEN <<DigitChar(n)>>
    ELSE IF n < 100 THEN <<DigitChar(n \div 10), DigitChar(n % 10)>>
    ELSE <<DigitChar(n \div 100), DigitChar((n \div 10) % 10), DigitChar(n % 10)>>

\* ------------------------------------------------------------ ipaddress
\* ipaddress.IPv4Address._parse_octet: decimal digits only, at most three,
\* no leading zero, at most 255
OctetOk(o) ==
    /\ o # <<>>
    /\ \A i \in 1..Len(o) : o[i] \in Digits
    /\ Len(o) <= 3
    /\ (Len(o) > 1 => o[1] # "0")
    /\ DecValue(o) <= 255

\* the ValueError of ipaddress.ip_address
NoAddr == <<>>

\* ipaddress.ip_address(s) for an IPv4 literal: the four octets, or NoAddr
ip_address(s) ==
    LET parts == Split(s, <<".">>)
    IN IF Len(parts) = 4 /\ \A i \in 1..4 : OctetOk(parts[i])
       THEN [i \in 1..4 |-> DecValue(parts[i])]
       ELSE NoAddr

\* str(IPv4Address)
ip_str(a) ==
    DecString(a[1]) \o <<".">> \o DecString(a[2]) \o <<".">> \o DecString(a[3])
        \o <<".">> \o DecString(a[4])

\* ipaddress.ip_network(f"{ip}/30", strict=False).network_address: the low
\* two bits of the 32-bit address cleared
network_30(a) == [a EXCEPT ![4] = a[4] - (a[4] % 4)]

\* list(network.hosts()) of a /30: network + 1 and network + 2
hosts_30(a) ==
    LET n == network_30(a)
    IN <<[n EXCEPT ![4] = n[4] + 1], [n EXCEPT ![4] = n[4] + 2]>>

\* a plausible slip: the peer is taken to be the next address up
calculate_fusion_router_ip_next(ip) ==
    LET a == ip_address(ip)
    IN IF a = NoAddr \/ a[4] % 4 \in {0, 3} THEN None
       ELSE ip_str([a EXCEPT ![4] = IF a[4] % 4 = 1 THEN a[4] + 1 ELSE a[4]])

\* a plausible slip: the membership test against the two hosts is dropped
calculate_fusion_router_ip_nocheck(ip) ==
    LET a == ip_address(ip)
    IN IF a = NoAddr THEN None
       ELSE IF a[4] % 2 = 1 THEN ip_str(hosts_30(a)[2]) ELSE ip_str(hosts_30(a)[1])

calculate_fusion_router_ip(ip) ==
    LET a == ip_address(ip)
    IN IF a = NoAddr THEN None
       ELSE LET hosts == hosts_30(a)
            IN IF ip_str(hosts[1]) = ip THEN ip_str(hosts[2])
               ELSE IF ip_str(hosts[2]) = ip THEN ip_str(hosts[1])
               ELSE None

\* ------------------------------------------------------ CiscoConfigParser
\* a key a dict does not hold
Missing == <<"Missing">>
\* the IndexError of taking a list element that is not there
Raise == <<"IndexError">>

\* parts[k] of a Python list (k counted from 0)
Item(parts, k) == IF Len(parts) > k THEN parts[k + 1] ELSE Raise

\* Python truthiness of an optional string
Truthy(v) == v # None /\ v # <<>>

Min(S) == CHOOSE i \in S : \A j \in S : i <= j

\* a plausible slip: the gutter is kept and the content dropped
clean_line_keep_gutter(line) ==
    IF Contains(line, <<"|">>) THEN SplitOnce(line, <<"|">>)[1] ELSE line

\* __init__: a line holding a '|' keeps only what follows the first one
clean_line(line) ==
    IF Contains(line, <<"|">>)
    THEN LET parts == SplitOnce(line, <<"|">>) IN IF Len(parts) = 2 THEN parts[2] ELSE line
    ELSE line

\* __init__: self.lines
cleaned_lines(config_lines) == [i \in 1..Len(config_lines) |-> clean_line(config_lines[i])]

\* a plausible variant: the name is everything after the prefix
get_hostname_after_prefix(lines) ==
    LET hits == {i \in 1..Len(lines) : StartsWith(lines[i], <<"h", "o", "s", "t", "n", "a", "m", "e", " ">>)}
    IN IF hits = {} THEN None ELSE Strip(Drop(lines[Min(hits)], 9))

get_hostname(lines) ==
    LET hits == {i \in 1..Len(lines) : StartsWith(lines[i], <<"h", "o", "s", "t", "n", "a", "m", "e", " ">>)}
    IN IF hits = {} THEN None
       ELSE Strip(Item(Split(lines[Min(hits)], <<"h", "o", "s", "t", "n", "a", "m", "e", " ">>), 1))

RECURSIVE loopback0_scan(_, _, _)
loopback0_scan(lines, i, in_loopback0) ==
    IF i > Len(lines) THEN None
    ELSE LET line == lines[i]
         IN IF StartsWith(line, <<"i", "n", "t", "e", "r", "f", "a", "c", "e", " ", "L", "o", "o", "p", "b", "a", "c", "k", "0">>)
            THEN loopback0_scan(lines, i + 1, TRUE)
            ELSE IF ~in_loopback0 THEN loopback0_scan(lines, i + 1, FALSE)
            ELSE IF StartsWith(line, <<" ", "i", "p", " ", "a", "d", "d", "r", "e", "s", "s", " ">>)
                 THEN LET parts == SplitWS(Strip(line))
                      IN IF Len(parts) >= 3 THEN parts[3]
                         ELSE loopback0_scan(lines, i + 1, TRUE)
            ELSE IF StartsWith(line, <<"i", "n", "t", "e", "r", "f", "a", "c", "e", " ">>) THEN None
            ELSE loopback0_scan(lines, i + 1, TRUE)

get_loopback0_ip(lines) == loopback0_scan(lines, 1, FALSE)

\* re.match(r'\s*neighbor\s+([\d\.]+)\s+remote-as\s+(\d+)', line): the two
\* groups, or <<>> when the line does not match
neighbor_match(line) ==
    LET s0 == Drop(line, Span(line, Whitespace))
        s1 == Drop(s0, 8)
        s2 == Drop(s1, Span(s1, Whitespace))
        n  == Span(s2, Digits \cup {"."})
        s3 == Drop(s2, n)
        s4 == Drop(s3, Span(s3, Whitespace))
        s5 == Drop(s4, 9)
        s6 == Drop(s5, Span(s5, Whitespace))
        d  == Span(s6, Digits)
    IN IF /\ StartsWith(s0, <<"n", "e", "i", "g", "h", "b", "o", "r">>)
          /\ Span(s1, Whitespace) >= 1
          /\ n >= 1
          /\ Span(s3, Whitespace) >= 1
          /\ StartsWith(s4, <<"r", "e", "m", "o", "t", "e", "-", "a", "s">>)
          /\ Span(s5, Whitespace) >= 1
          /\ d >= 1
       THEN <<SubSeq(s2, 1, n), SubSeq(s6, 1, d)>>
       ELSE <<>>

\* self.lines.index(line): the first line with this text
index_of(lines, line) == Min({j \in 1..Len(lines) : lines[j] = line})

\* a plausible slip: the look-back for the default address-family is dropped
default_af_ungated(lines, line) == TRUE

\* any('address-family ipv4' in l and 'vrf' not in l
\*     for l in self.lines[:self.lines.index(line)])
default_af_before(lines, line) ==
    \E j \in 1..(index_of(lines, line) - 1) :
        Contains(lines[j], <<"a", "d", "d", "r", "e", "s", "s", "-", "f", "a", "m", "i", "l", "y", " ", "i", "p", "v", "4">>) /\ ~Contains(lines[j], <<"v", "r", "f">>)

\* vrf_neighbors is a dict: its keys in insertion order, each with its list
vrf_names(vrf_neighbors) == {vrf_neighbors[k].name : k \in 1..Len(vrf_neighbors)}
vrf_register(vrf_neighbors, name) ==
    IF name \in vrf_names(vrf_neighbors) THEN vrf_neighbors
    ELSE Append(vrf_neighbors, [name |-> name, neighbors |-> <<>>])
vrf_append(vrf_neighbors, name, info) ==
    [k \in 1..Len(vrf_neighbors) |->
        IF vrf_neighbors[k].name = name
        THEN [vrf_neighbors[k] EXCEPT !.neighbors = Append(@, info)]
        ELSE vrf_neighbors[k]]

\* a plausible slip: the '!' line is passed over
leave_bgp_ignored(st) == st

\* a line starting with '!' ends the block and its VRF context
leave_bgp(st) == [st EXCEPT !.in_bgp = FALSE, !.current_vrf = None]

bgp_start ==
    [as_number |-> None, default_vrf_neighbors |-> <<>>, vrf_neighbors |-> <<>>,
     current_vrf |-> None, in_bgp |-> FALSE]

\* one turn of the loop of get_bgp_config; line_no of a neighbor entry is the
\* number of the line it was read from (kept for the record, not in the code)
bgp_step(lines, i, st) ==
    LET line == lines[i]
        stripped == Strip(line)
    IN IF StartsWith(line, <<"r", "o", "u", "t", "e", "r", " ", "b", "g", "p", " ">>)
       THEN [st EXCEPT !.as_number = Strip(Item(Split(line, <<"r", "o", "u", "t", "e", "r", " ", "b", "g", "p", " ">>), 1)),
                       !.in_bgp = TRUE]
       ELSE IF ~st.in_bgp THEN st
       ELSE IF StartsWith(line, <<"!">>)
            THEN leave_bgp(st)
       ELSE IF StartsWith(stripped, <<"a", "d", "d", "r", "e", "s", "s", "-", "f", "a", "m", "i", "l", "y", " ", "i", "p", "v", "4", " ", "v", "r", "f", " ">>)
            THEN LET vrf_name == Strip(Item(Split(stripped, <<"v", "r", "f", " ">>), 1))
                 IN [st EXCEPT !.current_vrf = vrf_name,
                               !.vrf_neighbors = vrf_register(@, vrf_name)]
       ELSE IF StartsWith(stripped, <<"e", "x", "i", "t", "-", "a", "d", "d", "r", "e", "s", "s", "-", "f", "a", "m", "i", "l", "y">>)
            THEN [st EXCEPT !.current_vrf = None]
       ELSE IF StartsWith(stripped, <<"n", "e", "i", "g", "h", "b", "o", "r", " ">>)
            THEN LET g == neighbor_match(line)
                     neighbor_info == [ip |-> g[1], remote_as |-> g[2], line_no |-> i]
                 IN IF g = <<>> THEN st
                    ELSE IF Truthy(st.current_vrf)
                         THEN [st EXCEPT !.vrf_neighbors =
                                             vrf_append(@, st.current_vrf, neighbor_info)]
                    ELSE IF default_af_before(lines, line)
                         THEN [st EXCEPT !.default_vrf_neighbors = Append(@, neighbor_info)]
                    ELSE st
       ELSE st

RECURSIVE bgp_scan(_, _, _)
bgp_scan(lines, i, st) ==
    IF i > Len(lines) THEN st ELSE bgp_scan(lines, i + 1, bgp_step(lines, i, st))

get_bgp_config(lines) ==
    LET st == bgp_scan(lines, 1, bgp_start)
    IN [as_number |-> st.as_number,
        default_vrf_neighbors |-> st.default_vrf_neighbors,
        vrf_neighbors |-> st.vrf_neighbors]

\* re.match(r'bfd interval (\d+) min_rx (\d+) multiplier (\d+)', s): the three
\* groups, or <<>> when s does not match
bfd_match(s) ==
    LET s1 == Drop(s, 13)
        n1 == Span(s1, Digits)
        s2 == Drop(s1, n1)
        s3 == Drop(s2, 8)
        n2 == Span(s3, Digits)
        s4 == Drop(s3, n2)
        s5 == Drop(s4, 12)
        n3 == Span(s5, Digits)
    IN IF /\ StartsWith(s, <<"b", "f", "d", " ", "i", "n", "t", "e", "r", "v", "a", "l", " ">>)
          /\ n1 >= 1
          /\ StartsWith(s2, <<" ", "m", "i", "n", "_", "r", "x", " ">>)
          /\ n2 >= 1
          /\ StartsWith(s4, <<" ", "m", "u", "l", "t", "i", "p", "l", "i", "e", "r", " ">>)
          /\ n3 >= 1
       THEN <<SubSeq(s1, 1, n1), SubSeq(s3, 1, n2), SubSeq(s5, 1, n3)>>
       ELSE <<>>

\* the record opened at an `interface Vlan` line; line_no is the number of
\* that line (kept for the record, not in the code)
new_vlan_config(vlan_num, i) ==
    [vlan |-> vlan_num, ip_address |-> None, subnet_mask |-> None, vrf |-> None,
     description |-> None, bfd_enabled |-> FALSE, bfd_interval |-> None,
     bfd_min_rx |-> None, bfd_multiplier |-> None, line_no |-> i]

\* current_config is <<>> for the empty dict and <<record>> otherwise
vlan_start == [vlan_interfaces |-> <<>>, current_vlan |-> None, current_config |-> <<>>]

\* a plausible slip: another interface line is passed over
close_vlan_ignored(st) == st

\* a line starting with 'interface ' that opens no VLAN: the current record
\* is flushed and closed
close_vlan(st) ==
    [vlan_interfaces |-> st.vlan_interfaces \o st.current_config,
     current_vlan |-> None,
     current_config |-> <<>>]

\* one turn of the loop of get_vlan_interfaces
vlan_step(lines, i, st) ==
    LET line == lines[i]
        line_stripped == Strip(line)
        cur == st.current_config[1]
    IN IF StartsWith(line, <<"i", "n", "t", "e", "r", "f", "a", "c", "e", " ", "V", "l", "a", "n">>)
       THEN LET vlan_num == Strip(Item(Split(line, <<"V", "l", "a", "n">>), 1))
            IN [vlan_interfaces |->
                    IF Truthy(st.current_vlan) /\ st.current_config # <<>>
                    THEN st.vlan_interfaces \o st.current_config
                    ELSE st.vlan_interfaces,
                current_vlan |-> vlan_num,
                current_config |-> <<new_vlan_config(vlan_num, i)>>]
       ELSE IF ~Truthy(st.current_vlan) THEN st
       ELSE IF StartsWith(line, <<"i", "n", "t", "e", "r", "f", "a", "c", "e", " ">>)
            THEN close_vlan(st)
       ELSE IF StartsWith(line_stripped, <<"i", "p", " ", "a", "d", "d", "r", "e", "s", "s", " ">>)
            THEN LET parts == SplitWS(line_stripped)
                 IN IF Len(parts) >= 4
                    THEN [st EXCEPT !.current_config =
                              <<[cur EXCEPT !.ip_address = parts[3], !.subnet_mask = parts[4]]>>]
                    ELSE st
       ELSE IF StartsWith(line_stripped, <<"v", "r", "f", " ", "f", "o", "r", "w", "a", "r", "d", "i", "n", "g", " ">>)
            THEN [st EXCEPT !.current_config =
                      <<[cur EXCEPT !.vrf = Item(Split(line_stripped, <<"v", "r", "f", " ", "f", "o", "r", "w", "a", "r", "d", "i", "n", "g", " ">>), 1)]>>]
       ELSE IF StartsWith(line_stripped, <<"d", "e", "s", "c", "r", "i", "p", "t", "i", "o", "n", " ">>)
            THEN [st EXCEPT !.current_config =
                      <<[cur EXCEPT !.description =
                                        Item(SplitOnce(line_stripped, <<"d", "e", "s", "c", "r", "i", "p", "t", "i", "o", "n", " ">>), 1)]>>]
       ELSE IF StartsWith(line_stripped, <<"b", "f", "d", " ", "i", "n", "t", "e", "r", "v", "a", "l", " ">>)
            THEN LET g == bfd_match(line_stripped)
                 IN [st EXCEPT !.current_config =
                        <<IF g = <<>> THEN [cur EXCEPT !.bfd_enabled = TRUE]
                          ELSE [cur EXCEPT !.bfd_enabled = TRUE, !.bfd_interval = g[1],
                                           !.bfd_min_rx = g[2], !.bfd_multiplier = g[3]]>>]
       ELSE st

RECURSIVE vlan_scan(_, _, _)
vlan_scan(lines, i, st) ==
    IF i > Len(lines) THEN st ELSE vlan_scan(lines, i + 1, vlan_step(lines, i, st))

\* the /30 mask the final filter keeps
Mask30 == <<"2", "5", "5", ".", "2", "5", "5", ".", "2", "5", "5", ".", "2", "5", "2">>

\* a plausible slip: the filter only asks for an address
vlan_keep_any_mask(vlan) == Truthy(vlan.ip_address)

\* the final filter of get_vlan_interfaces
vlan_keep(vlan) == Truthy(vlan.ip_address) /\ vlan.subnet_mask = Mask30

get_vlan_interfaces(lines) ==
    LET st == vlan_scan(lines, 1, vlan_start)
        vlan_interfaces ==
            IF Truthy(st.current_vlan) /\ st.current_config # <<>>
            THEN st.vlan_interfaces \o st.current_config
            ELSE st.vlan_interfaces
    IN SelectSeq(vlan_interfaces, vlan_keep)

\* physical_interface_pattern: the names the regular expression lists
PhysicalNames ==
    { <<"G", "i", "g", "a", "b", "i", "t", "E", "t", "h", "e", "r", "n", "e", "t">>, <<"T", "e", "n", "G", "i", "g", "a", "b", "i", "t", "E", "t", "h", "e", "r", "n", "e", "t">>, <<"F", "o", "r", "t", "y", "G", "i", "g", "E">>, <<"H", "u", "n", "d", "r", "e", "d", "G", "i", "g", "E">>,
      <<"T", "w", "e", "n", "t", "y", "F", "i", "v", "e", "G", "i", "g", "E">>, <<"P", "o", "r", "t", "-", "c", "h", "a", "n", "n", "e", "l">> }

\* physical_interface_pattern.match(line)
physical_match(line) ==
    /\ StartsWith(line, <<"i", "n", "t", "e", "r", "f", "a", "c", "e", " ">>)
    /\ \E nm \in PhysicalNames :
          /\ StartsWith(Drop(line, 10), nm)
          /\ Span(Drop(line, 10 + Len(nm)), Digits \cup {"/", "."}) >= 1

new_physical_config(name) ==
    [name |-> name, description |-> None, mode |-> None, allowed_vlans |-> None,
     access_vlan |-> None, shutdown |-> FALSE, ip_address |-> Missing,
     subnet_mask |-> Missing]

physical_start ==
    [physical_interfaces |-> <<>>, current_interface |-> None, current_config |-> <<>>]

\* one turn of the loop of extract_physical_interfaces
physical_step(lines, i, st) ==
    LET line == lines[i]
        line_stripped == Strip(line)
        cur == st.current_config[1]
        set(c) == [st EXCEPT !.current_config = <<c>>]
    IN IF physical_match(line)
       THEN LET name == Strip(Item(Split(line, <<"i", "n", "t", "e", "r", "f", "a", "c", "e", " ">>), 1))
            IN [physical_interfaces |->
                    IF Truthy(st.current_interface) /\ st.current_config # <<>>
                    THEN st.physical_interfaces \o st.current_config
                    ELSE st.physical_interfaces,
                current_interface |-> name,
                current_config |-> <<new_physical_config(name)>>]
       ELSE IF ~Truthy(st.current_interface) THEN st
       ELSE IF StartsWith(line, <<"i", "n", "t", "e", "r", "f", "a", "c", "e", " ">>) \/ StartsWith(line, <<"!">>)
            THEN [physical_interfaces |-> st.physical_interfaces \o st.current_config,
                  current_interface |-> None,
                  current_config |-> <<>>]
       ELSE IF StartsWith(line_stripped, <<"d", "e", "s", "c", "r", "i", "p", "t", "i", "o", "n", " ">>)
            THEN set([cur EXCEPT !.description =
                                     Item(SplitOnce(line_stripped, <<"d", "e", "s", "c", "r", "i", "p", "t", "i", "o", "n", " ">>), 1)])
       ELSE IF line_stripped = <<"s", "w", "i", "t", "c", "h", "p", "o", "r", "t", " ", "m", "o", "d", "e", " ", "t", "r", "u", "n", "k">>
            THEN set([cur EXCEPT !.mode = <<"t", "r", "u", "n", "k">>])
       ELSE IF line_stripped = <<"s", "w", "i", "t", "c", "h", "p", "o", "r", "t", " ", "m", "o", "d", "e", " ", "a", "c", "c", "e", "s", "s">>
            THEN set([cur EXCEPT !.mode = <<"a", "c", "c", "e", "s", "s">>])
       ELSE IF StartsWith(line_stripped, <<"s", "w", "i", "t", "c", "h", "p", "o", "r", "t", " ", "t", "r", "u", "n", "k", " ", "a", "l", "l", "o", "w", "e", "d", " ", "v", "l", "a", "n", " ">>)
            THEN set([cur EXCEPT !.allowed_vlans =
                          Item(Split(line_stripped, <<"s", "w", "i", "t", "c", "h", "p", "o", "r", "t", " ", "t", "r", "u", "n", "k", " ", "a", "l", "l", "o", "w", "e", "d", " ", "v", "l", "a", "n", " ">>), 1)])
       ELSE IF StartsWith(line_stripped, <<"s", "w", "i", "t", "c", "h", "p", "o", "r", "t", " ", "a", "c", "c", "e", "s", "s", " ", "v", "l", "a", "n", " ">>)
            THEN set([cur EXCEPT !.access_vlan =
                          Item(Split(line_stripped, <<"s", "w", "i", "t", "c", "h", "p", "o", "r", "t", " ", "a", "c", "c", "e", "s", "s", " ", "v", "l", "a", "n", " ">>), 1)])
       ELSE IF line_stripped = <<"s", "h", "u", "t", "d", "o", "w", "n">>
            THEN set([cur EXCEPT !.shutdown = TRUE])
       ELSE IF StartsWith(line_stripped, <<"i", "p", " ", "a", "d", "d", "r", "e", "s", "s", " ">>)
            THEN LET parts == SplitWS(line_stripped)
                 IN IF Len(parts) >= 4
                    THEN set([cur EXCEPT !.mode = <<"r", "o", "u", "t", "e", "d">>, !.ip_address = parts[3],
                                         !.subnet_mask = parts[4]])
                    ELSE set([cur EXCEPT !.mode = <<"r", "o", "u", "t", "e", "d">>])
       ELSE st

RECURSIVE physical_scan(_, _, _)
physical_scan(lines, i, st) ==
    IF i > Len(lines) THEN st ELSE physical_scan(lines, i + 1, physical_step(lines, i, st))

extract_physical_interfaces(lines) ==
    LET st == physical_scan(lines, 1, physical_start)
    IN IF Truthy(st.current_interface) /\ st.current_config # <<>>
       THEN st.physical_interfaces \o st.current_config
       ELSE st.physical_interfaces

\* CiscoConfigParser(config_text).parse(), config_text given as its lines
parse(config_lines) ==
    LET lines == cleaned_lines(config_lines)
    IN [hostname |-> get_hostname(lines),
        loopback0_ip |-> get_loopback0_ip(lines),
        bgp |-> get_bgp_config(lines),
        vlan_interfaces |-> get_vlan_interfaces(lines),
        physical_interfaces |-> extract_physical_interfaces(lines)]

\* whether an IndexError was raised somewhere in parse()
parse_raised(p) ==
    \/ p.hostname = Raise
    \/ p.bgp.as_number = Raise
    \/ \E k \in 1..Len(p.bgp.vrf_neighbors) : p.bgp.vrf_neighbors[k].name = Raise
    \/ \E k \in 1..Len(p.vlan_interfaces) :
          Raise \in {p.vlan_interfaces[k].vlan, p.vlan_interfaces[k].vrf,
                     p.vlan_interfaces[k].description}
    \/ \E k \in 1..Len(p.physical_interfaces) :
          Raise \in {p.physical_interfaces[k].name, p.physical_interfaces[k].description,
                     p.physical_interfaces[k].allowed_vlans,
                     p.physical_interfaces[k].access_vlan}

\* upload_configs, for one uploaded file: the parsed data is appended to the
\* answer, or the request ends with an error
upload_one(config_lines) ==
    LET parsed_data == parse(config_lines)
    IN IF parse_raised(parsed_data) THEN "error_parsing"
       ELSE IF ~Truthy(parsed_data.hostname) THEN "could_not_parse_hostname"
       ELSE "accepted"

\* --------------------------------------------------- build_ibgp_configs
\* dict.get(key, default); a dict is a function on the keys it holds
Get(d, key, default) == IF key \in DOMAIN d THEN d[key] ELSE default

\* ', '.join(items)
RECURSIVE Join(_, _)
Join(items, sep) ==
    IF items = <<>> THEN <<>>
    ELSE IF Len(items) = 1 THEN items[1]
    ELSE items[1] \o sep \o Join(Tail(items), sep)

\* what a call returned, or the message of the ValueError it raised
Returned(v) == [raised |-> None, value |-> v]
Raised(msg) == [raised |-> msg, value |-> <<>>]

\* the projection build_ibgp_configs makes for `router` with `peer_router`
ibgp_config_for(router, peer_router, params) ==
    [enabled |-> TRUE,
     router_id |-> router.router_id,
     peering_type |-> <<"l", "o", "o", "p", "b", "a", "c", "k">>,
     peer_hostname |-> peer_router.hostname,
     peer_ip |-> peer_router.bgp_router_id,
     update_source |-> <<"L", "o", "o", "p", "b", "a", "c", "k", "0">>,
     bfd_enabled |-> Get(params, "bfd_enabled", TRUE),
     bfd_interval |-> Get(params, "bfd_interval", 250),
     bfd_min_rx |-> Get(params, "bfd_min_rx", 250),
     bfd_multiplier |-> Get(params, "bfd_multiplier", 3)]

\* a plausible slip: the peer is looked up with the router's own index
ibgp_peer_self(routers, i) == routers[i]

\* peer_router = fusion_routers[1] if i == 0 else fusion_routers[0]
\* (i counted from 1 here)
ibgp_peer(routers, i) == IF i = 1 THEN routers[2] ELSE routers[1]

build_ibgp_configs(routers, params) ==
    IF DOMAIN params = {} \/ ~Get(params, "enabled", FALSE) \/ Len(routers) < 2
    THEN Returned(<<>>)
    ELSE LET as_numbers == [i \in 1..Len(routers) |-> routers[i].as_number]
         IN IF Cardinality({as_numbers[i] : i \in 1..Len(routers)}) > 1
            THEN Raised(<<"i", "B", "G", "P", " ", "r", "e", "q", "u", "i", "r", "e", "s", " ", "b", "o", "t", "h", " ", "f", "u", "s", "i", "o", "n", " ", "r", "o", "u", "t", "e", "r", "s", " ", "t", "o", " ", "u", "s", "e", " ", "t", "h", "e", " ", "s", "a", "m", "e", " ", "A", "S", " ", "n", "u", "m", "b", "e", "r", ".", " ", "F", "o", "u", "n", "d", ":", " ">>
                            \o Join(as_numbers, <<",", " ">>))
            ELSE Returned([i \in 1..Len(routers) |->
                              ibgp_config_for(routers[i], ibgp_peer(routers, i), params)])

\* ------------------------------------------------------ FieldValidators
Letters ==
    {"a", "b", "c", "d", "e", "f", "g", "h", "i", "j", "k", "l", "m", "n", "o", "p", "q",
     "r", "s", "t", "u", "v", "w", "x", "y", "z", "A", "B", "C", "D", "E", "F", "G", "H",
     "I", "J", "K", "L", "M", "N", "O", "P", "Q", "R", "S", "T", "U", "V", "W", "X", "Y",
     "Z"}

\* the longest VRF name validate_vrf_name accepts
MaxVrfNameLen == 32

\* what a pattern ending in `$` has to match: `$` also matches just before
\* a newline that ends the text
BeforeDollar(s) ==
    IF s # <<>> /\ s[Len(s)] = "\n" THEN SubSeq(s, 1, Len(s) - 1) ELSE s

\* validate_vrf_name(vrf_name)[0]; a name that is not given is None
validate_vrf_name(vrf_name) ==
    /\ Truthy(vrf_name)
    /\ Len(vrf_name) <= MaxVrfNameLen
    /\ BeforeDollar(vrf_name) # <<>>
    /\ \A i \in 1..Len(BeforeDollar(vrf_name)) :
           BeforeDollar(vrf_name)[i] \in Letters \cup Digits \cup {"_", "-"}

\* a decimal numeral without its leading zeros
RECURSIVE StripZeros(_)
StripZeros(d) == IF Len(d) > 1 /\ Head(d) = "0" THEN StripZeros(Tail(d)) ELSE d

\* whether numeral a comes before numeral b of the same length
RECURSIVE DigitsLess(_, _)
DigitsLess(a, b) ==
    /\ a # <<>>
    /\ \/ DigitVal(Head(a)) < DigitVal(Head(b))
       \/ Head(a) = Head(b) /\ DigitsLess(Tail(a), Tail(b))

\* int(a) <= int(b) for decimal numerals of any length
NumLeq(a, b) ==
    LET x == StripZeros(a)
        y == StripZeros(b)
    IN Len(x) < Len(y) \/ (Len(x) = Len(y) /\ (x = y \/ DigitsLess(x, y)))

\* the limits of validate_route_distinguisher
MaxAsn == <<"4", "2", "9", "4", "9", "6", "7", "2", "9", "5">>
MaxNn == <<"6", "5", "5", "3", "5">>

\* validate_route_distinguisher(rd)[0]
validate_route_distinguisher(rd) ==
    /\ Truthy(rd)
    /\ LET parts == Split(BeforeDollar(rd), <<":">>)
           left == parts[1]
           nn == parts[2]
           AllIn(t, cs) == t # <<>> /\ \A i \in 1..Len(t) : t[i] \in cs
       IN /\ Len(parts) = 2
          /\ AllIn(nn, Digits)
          /\ \/ AllIn(left, Digits) /\ NumLeq(left, MaxAsn) /\ NumLeq(nn, MaxNn)
             \/ /\ AllIn(left, Digits \cup {"."})
                /\ ip_address(left) # NoAddr
                /\ NumLeq(nn, MaxNn)

\* build_vrf_config(vrf_params): the validated dict, or the ValueError (its
\* message up to the colon; the validator's detail after it is left out)
build_vrf_config(vrf_params) ==
    LET name == Get(vrf_params, "name", None)
        rd == Get(vrf_params, "rd", None)
        rt_export_enabled == Get(vrf_params, "rt_export_enabled", FALSE)
        rt_import_enabled == Get(vrf_params, "rt_import_enabled", FALSE)
        rt_export == Get(vrf_params, "rt_export_value", None)
        rt_import == Get(vrf_params, "rt_import_value", None)
    IN IF ~validate_vrf_name(name) THEN Raised(<<"I", "n", "v", "a", "l", "i", "d", " ", "V", "R", "F", " ", "n", "a", "m", "e">>)
       ELSE IF ~validate_route_distinguisher(rd) THEN Raised(<<"I", "n", "v", "a", "l", "i", "d", " ", "R", "o", "u", "t", "e", " ", "D", "i", "s", "t", "i", "n", "g", "u", "i", "s", "h", "e", "r">>)
       ELSE IF rt_export_enabled /\ ~validate_route_distinguisher(rt_export)
            THEN Raised(<<"I", "n", "v", "a", "l", "i", "d", " ", "R", "T", " ", "E", "x", "p", "o", "r", "t">>)
       ELSE IF rt_import_enabled /\ ~validate_route_distinguisher(rt_import)
            THEN Raised(<<"I", "n", "v", "a", "l", "i", "d", " ", "R", "T", " ", "I", "m", "p", "o", "r", "t">>)
       ELSE Returned([name |-> name, rd |-> rd,
                      rt_export_enabled |-> rt_export_enabled,
                      rt_import_enabled |-> rt_import_enabled,
                      rt_export_value |-> IF rt_export_enabled THEN rt_export ELSE Missing,
                      rt_import_value |-> IF rt_import_enabled THEN rt_import ELSE Missing])

\* -------------------------------------------------- OspfConfigBuilder
\* a Python int of a request: the marker "int" and then its decimal numeral,
\* with a leading "-" when negative (process ids, areas and key ids are
\* compared as numerals, whatever their size)
PyInt(numeral) == <<"int">> \o numeral

\* isinstance(v, int)
IsInt(v) == v # <<>> /\ v[1] = "int"

\* isinstance(v, str)
IsStr(v) == v # None /\ ~IsInt(v)

\* the decimal numeral of an int
Numeral(v) == Tail(v)

\* Python truthiness of None, a str or an int
TruthyValue(v) == v # None /\ v # <<>> /\ v # PyInt(<<"0">>)

\* lo <= v <= hi for an int v and numerals lo, hi that are not negative
IntBetween(v, lo, hi) ==
    /\ Numeral(v)[1] # "-"
    /\ NumLeq(lo, Numeral(v))
    /\ NumLeq(Numeral(v), hi)

\* str(v), as an f-string formats it
Str(v) == IF IsInt(v) THEN Numeral(v) ELSE v

\* validate_ip_address(...)[0], for IPv4 text
validate_ip_address(addr_text) == ip_address(addr_text) # NoAddr

\* the number of leading one bits of an octet that is ones followed by
\* zeros, or -1 for any other octet
OnesOfOctet(o) ==
    CASE o = 0 -> 0 [] o = 128 -> 1 [] o = 192 -> 2 [] o = 224 -> 3 [] o = 240 -> 4
      [] o = 248 -> 5 [] o = 252 -> 6 [] o = 254 -> 7 [] o = 255 -> 8 [] OTHER -> -1

\* IPv4Network._prefix_from_ip_int: the prefix length of a mask that is ones
\* followed by zeros, or -1 (its ValueError)
prefix_from_ip_int(a) ==
    IF \E i \in 1..4 : OnesOfOctet(a[i]) = -1 THEN -1
    ELSE IF \E i \in 1..3 : a[i] # 255 /\ a[i + 1] # 0 THEN -1
    ELSE OnesOfOctet(a[1]) + OnesOfOctet(a[2]) + OnesOfOctet(a[3]) + OnesOfOctet(a[4])

\* IPv4Network._prefix_from_ip_string: the text is tried as a netmask and then
\* as a host mask (every bit flipped); -1 for its NetmaskValueError
prefix_from_ip_string(mask_text) ==
    LET a == ip_address(mask_text)
    IN IF a = NoAddr THEN -1
       ELSE IF prefix_from_ip_int(a) # -1 THEN prefix_from_ip_int(a)
       ELSE prefix_from_ip_int([i \in 1..4 |-> 255 - a[i]])

\* the prefix length ipaddress.IPv4Network(f"<address>/{mask}") takes from
\* the text after the slash: a prefix length up to 32, a netmask or a host
\* mask; -1 when it raises
make_netmask(mask) ==
    IF Contains(mask, <<"/">>) \/ mask = <<>> THEN -1
    ELSE IF \A i \in 1..Len(mask) : mask[i] \in Digits
         THEN IF NumLeq(mask, <<"3", "2">>) THEN DecValue(StripZeros(mask)) ELSE -1
    ELSE prefix_from_ip_string(mask)

\* 2 to the power n, for 0 <= n <= 8
Pow2(n) ==
    CASE n = 0 -> 1 [] n = 1 -> 2 [] n = 2 -> 4 [] n = 3 -> 8 [] n = 4 -> 16
      [] n = 5 -> 32 [] n = 6 -> 64 [] n = 7 -> 128 [] n = 8 -> 256

\* the octets of the netmask of a prefix length
netmask_of(prefixlen) ==
    [i \in 1..4 |->
        LET ones == prefixlen - 8 * (i - 1)
        IN IF ones >= 8 THEN 255 ELSE IF ones <= 0 THEN 0 ELSE 256 - Pow2(8 - ones)]

\* IPv4Network(..., strict=False).network_address: the address and the
\* netmask, bit by bit
network_address_of(a, prefixlen) ==
    [i \in 1..4 |-> a[i] - (a[i] % (256 - netmask_of(prefixlen)[i]))]

\* ipaddress.IPv4Address(subnet_mask): the octets of a dotted text, the int
\* itself as a 32-bit address (here always below 256), NoAddr when it raises
mask_address(subnet_mask) ==
    IF IsInt(subnet_mask)
    THEN <<0, 0, 0, DecValue(StripZeros(Numeral(subnet_mask)))>>
    ELSE ip_address(subnet_mask)

\* 255.255.255.255 minus the mask, as 32-bit integers: no octet borrows
wildcard_of(m) == [i \in 1..4 |-> 255 - m[i]]

UpperLetters ==
    <<"A", "B", "C", "D", "E", "F", "G", "H", "I", "J", "K", "L", "M", "N", "O", "P", "Q",
      "R", "S", "T", "U", "V", "W", "X", "Y", "Z">>
LowerLetters ==
    <<"a", "b", "c", "d", "e", "f", "g", "h", "i", "j", "k", "l", "m", "n", "o", "p", "q",
      "r", "s", "t", "u", "v", "w", "x", "y", "z">>

\* str.lower, letter by letter (re.IGNORECASE)
Lower(s) ==
    [i \in 1..Len(s) |->
        IF \E k \in 1..26 : UpperLetters[k] = s[i]
        THEN LowerLetters[CHOOSE k \in 1..26 : UpperLetters[k] = s[i]]
        ELSE s[i]]

\* the interface-name prefixes interface_pattern lists
OspfInterfaceNames ==
    { <<"G", "i", "g", "a", "b", "i", "t", "E", "t", "h", "e", "r", "n", "e", "t">>, <<"G", "i">>, <<"T", "e", "n", "G", "i", "g", "a", "b", "i", "t", "E", "t", "h", "e", "r", "n", "e", "t">>, <<"T", "e", "n">>, <<"T", "e">>, <<"F", "a", "s", "t", "E", "t", "h", "e", "r", "n", "e", "t">>,
      <<"F", "a">>, <<"F", "o", "r", "t", "y", "G", "i", "g", "a", "b", "i", "t", "E", "t", "h", "e", "r", "n", "e", "t">>, <<"F", "o", "r", "t", "y", "G", "i", "g", "E">>, <<"F", "o">>, <<"H", "u", "n", "d", "r", "e", "d", "G", "i", "g", "E">>, <<"H", "u">>,
      <<"T", "w", "e", "n", "t", "y", "F", "i", "v", "e", "G", "i", "g", "E">>, <<"T", "w", "e">>, <<"P", "o", "r", "t", "-", "c", "h", "a", "n", "n", "e", "l">>, <<"P", "o">> }

\* interface_pattern.match(name): one of the prefixes in any letter case,
\* then one or more of digits, '/' and '.', up to the end
interface_pattern_match(name) ==
    \E prefix \in OspfInterfaceNames :
        LET rest == Drop(BeforeDollar(name), Len(prefix))
        IN /\ StartsWith(Lower(name), Lower(prefix))
           /\ rest # <<>>
           /\ \A i \in 1..Len(rest) : rest[i] \in Digits \cup {"/", "."}

\* the try block around ipaddress.IPv4Network(f"0.0.0.0/{subnet_mask}")
subnet_mask_ok(subnet_mask) == make_netmask(Str(subnet_mask)) # -1

\* validate_ospf_params(ospf_params): returns, or raises the ValueError
validate_ospf_params(ospf_params) ==
    LET process_id == Get(ospf_params, "process_id", None)
        area == Get(ospf_params, "area", None)
        router1_ip == Get(ospf_params, "router1_ip", None)
        router2_ip == Get(ospf_params, "router2_ip", None)
        subnet_mask == Get(ospf_params, "subnet_mask", None)
        router1_interface == Get(ospf_params, "router1_interface", None)
        router2_interface == Get(ospf_params, "router2_interface", None)
        interface_mode == Get(ospf_params, "interface_mode", None)
        vlan_id == Get(ospf_params, "vlan_id", None)
        md5_key == Get(ospf_params, "md5_key", None)
        md5_key_id == Get(ospf_params, "md5_key_id", None)
    IN IF DOMAIN ospf_params = {} \/ ~Get(ospf_params, "enabled", FALSE) THEN Returned(TRUE)
       ELSE IF ~TruthyValue(process_id) \/ ~IsInt(process_id)
                  \/ ~IntBetween(process_id, <<"1">>, <<"6", "5", "5", "3", "5">>)
            THEN Raised(<<"O", "S", "P", "F", " ", "p", "r", "o", "c", "e", "s", "s", " ", "I", "D", " ", "m", "u", "s", "t", " ", "b", "e", " ", "b", "e", "t", "w", "e", "e", "n", " ", "1", " ", "a", "n", "d", " ", "6", "5", "5", "3", "5">>)
       ELSE IF area = None \/ ~IsInt(area) \/ ~IntBetween(area, <<"0">>, <<"4", "2", "9", "4", "9", "6", "7", "2", "9", "5">>)
            THEN Raised(<<"O", "S", "P", "F", " ", "a", "r", "e", "a", " ", "m", "u", "s", "t", " ", "b", "e", " ", "b", "e", "t", "w", "e", "e", "n", " ", "0", " ", "a", "n", "d", " ", "4", "2", "9", "4", "9", "6", "7", "2", "9", "5">>)
       ELSE IF ~TruthyValue(router1_ip) \/ ~TruthyValue(router2_ip)
            THEN Raised(<<"B", "o", "t", "h", " ", "r", "o", "u", "t", "e", "r", " ", "I", "P", " ", "a", "d", "d", "r", "e", "s", "s", "e", "s", " ", "a", "r", "e", " ", "r", "e", "q", "u", "i", "r", "e", "d", " ", "f", "o", "r", " ", "O", "S", "P", "F">>)
       ELSE IF ~validate_ip_address(router1_ip)
            THEN Raised(<<"R", "o", "u", "t", "e", "r", " ", "1", " ", "I", "P", ":", " ", "I", "n", "v", "a", "l", "i", "d", " ", "I", "P", " ", "a", "d", "d", "r", "e", "s", "s", ":", " ">> \o router1_ip)
       ELSE IF ~validate_ip_address(router2_ip)
            THEN Raised(<<"R", "o", "u", "t", "e", "r", " ", "2", " ", "I", "P", ":", " ", "I", "n", "v", "a", "l", "i", "d", " ", "I", "P", " ", "a", "d", "d", "r", "e", "s", "s", ":", " ">> \o router2_ip)
       ELSE IF ~TruthyValue(subnet_mask) THEN Raised(<<"S", "u", "b", "n", "e", "t", " ", "m", "a", "s", "k", " ", "i", "s", " ", "r", "e", "q", "u", "i", "r", "e", "d", " ", "f", "o", "r", " ", "O", "S", "P", "F">>)
       ELSE IF ~subnet_mask_ok(subnet_mask)
            THEN Raised(<<"I", "n", "v", "a", "l", "i", "d", " ", "s", "u", "b", "n", "e", "t", " ", "m", "a", "s", "k", ":", " ">> \o Str(subnet_mask))
       ELSE IF ~TruthyValue(router1_interface) \/ ~TruthyValue(router2_interface)
            THEN Raised(<<"B", "o", "t", "h", " ", "r", "o", "u", "t", "e", "r", " ", "i", "n", "t", "e", "r", "f", "a", "c", "e", " ", "n", "a", "m", "e", "s", " ", "a", "r", "e", " ", "r", "e", "q", "u", "i", "r", "e", "d", " ", "f", "o", "r", " ", "O", "S", "P", "F">>)
       ELSE IF ~interface_pattern_match(router1_interface)
            THEN Raised(<<"I", "n", "v", "a", "l", "i", "d", " ", "i", "n", "t", "e", "r", "f", "a", "c", "e", " ", "n", "a", "m", "e", " ", "f", "o", "r", "m", "a", "t", ":", " ">> \o router1_interface)
       ELSE IF ~interface_pattern_match(router2_interface)
            THEN Raised(<<"I", "n", "v", "a", "l", "i", "d", " ", "i", "n", "t", "e", "r", "f", "a", "c", "e", " ", "n", "a", "m", "e", " ", "f", "o", "r", "m", "a", "t", ":", " ">> \o router2_interface)
       ELSE IF interface_mode \in {<<"s", "v", "i">>, <<"s", "u", "b", "i", "n", "t", "e", "r", "f", "a", "c", "e">>}
                  /\ (~TruthyValue(vlan_id) \/ ~IsInt(vlan_id)
                          \/ ~IntBetween(vlan_id, <<"1">>, <<"4", "0", "9", "4">>))
            THEN Raised(<<"V", "L", "A", "N", " ", "I", "D", " ", "m", "u", "s", "t", " ", "b", "e", " ", "b", "e", "t", "w", "e", "e", "n", " ", "1", " ", "a", "n", "d", " ", "4", "0", "9", "4", " ", "f", "o", "r", " ">> \o interface_mode \o <<" ", "m", "o", "d", "e">>)
       ELSE IF Get(ospf_params, "authentication", None) = <<"m", "d", "5">>
                  /\ (~TruthyValue(md5_key) \/ ~IsStr(md5_key))
            THEN Raised(<<"M", "D", "5", " ", "k", "e", "y", " ", "i", "s", " ", "r", "e", "q", "u", "i", "r", "e", "d", " ", "w", "h", "e", "n", " ", "M", "D", "5", " ", "a", "u", "t", "h", "e", "n", "t", "i", "c", "a", "t", "i", "o", "n", " ", "i", "s", " ", "e", "n", "a", "b", "l", "e", "d">>)
       ELSE IF Get(ospf_params, "authentication", None) = <<"m", "d", "5">>
                  /\ (~TruthyValue(md5_key_id) \/ ~IsInt(md5_key_id)
                          \/ ~IntBetween(md5_key_id, <<"1">>, <<"2", "5", "5">>))
            THEN Raised(<<"M", "D", "5", " ", "k", "e", "y", " ", "I", "D", " ", "m", "u", "s", "t", " ", "b", "e", " ", "b", "e", "t", "w", "e", "e", "n", " ", "1", " ", "a", "n", "d", " ", "2", "5", "5">>)
       ELSE Returned(TRUE)

\* interface_name / ip_address: router1_* if i == 0 else router2_*
\* (i counted from 1 here)
ospf_endpoint(i) == IF i = 1 THEN "router1" ELSE "router2"

\* the projection build_ospf_configs makes for the i-th router
ospf_config_for(router, i, ospf_params, network_address, wildcard_mask) ==
    LET interface_mode == ospf_params.interface_mode
    IN [enabled |-> TRUE,
        router_id |-> router.router_id,
        process_id |-> ospf_params.process_id,
        area |-> ospf_params.area,
        network_address |-> network_address,
        wildcard_mask |-> wildcard_mask,
        interface_mode |-> interface_mode,
        interface_name |-> IF ospf_endpoint(i) = "router1" THEN ospf_params.router1_interface
                           ELSE ospf_params.router2_interface,
        ip_address |-> IF ospf_endpoint(i) = "router1" THEN ospf_params.router1_ip
                       ELSE ospf_params.router2_ip,
        subnet_mask |-> ospf_params.subnet_mask,
        cost |-> Get(ospf_params, "cost", None),
        bfd_enabled |-> Get(ospf_params, "bfd_enabled", TRUE),
        bfd_interval |-> Get(ospf_params, "bfd_interval", PyInt(<<"2", "5", "0">>)),
        bfd_min_rx |-> Get(ospf_params, "bfd_min_rx", PyInt(<<"2", "5", "0">>)),
        bfd_multiplier |-> Get(ospf_params, "bfd_multiplier", PyInt(<<"3">>)),
        authentication |-> Get(ospf_params, "authentication", <<"n", "o", "n", "e">>),
        md5_key_id |-> Get(ospf_params, "md5_key_id", None),
        md5_key |-> Get(ospf_params, "md5_key", None),
        vlan_id |-> IF interface_mode \in {<<"s", "v", "i">>, <<"s", "u", "b", "i", "n", "t", "e", "r", "f", "a", "c", "e">>}
                    THEN ospf_params.vlan_id ELSE Missing,
        encapsulation |-> IF interface_mode = <<"s", "u", "b", "i", "n", "t", "e", "r", "f", "a", "c", "e">>
                          THEN <<"d", "o", "t", "1", "Q", " ">> \o Str(ospf_params.vlan_id) ELSE Missing]

\* build_ospf_configs(fusion_routers, ospf_params): the projections, or what
\* it raises (the ValueError of the validation by its message, an
\* AddressValueError of ipaddress and a KeyError by their names)
build_ospf_configs(routers, ospf_params) ==
    IF DOMAIN ospf_params = {} \/ ~Get(ospf_params, "enabled", FALSE) \/ Len(routers) < 2
    THEN Returned(<<>>)
    ELSE IF validate_ospf_params(ospf_params).raised # None
    THEN Raised(validate_ospf_params(ospf_params).raised)
    ELSE
    LET router1_ip == ospf_params.router1_ip
        subnet_mask == ospf_params.subnet_mask
        prefixlen == make_netmask(Str(subnet_mask))
        network_address == ip_str(network_address_of(ip_address(router1_ip), prefixlen))
    IN IF mask_address(subnet_mask) = NoAddr THEN Raised(<<"A", "d", "d", "r", "e", "s", "s", "V", "a", "l", "u", "e", "E", "r", "r", "o", "r">>)
       ELSE IF "interface_mode" \notin DOMAIN ospf_params THEN Raised(<<"K", "e", "y", "E", "r", "r", "o", "r">>)
       ELSE Returned([i \in 1..Len(routers) |->
                        ospf_config_for(routers[i], i, ospf_params, network_address,
                                        ip_str(wildcard_of(mask_address(subnet_mask))))])

\* ---------------------------------------- generate_fusion_router_config
\* the first border node with that hostname, as <<bn>>, or <<>> for None
find_border_node(border_nodes, bn_hostname) ==
    LET hits == {k \in 1..Len(border_nodes) : border_nodes[k].hostname = bn_hostname}
    IN IF hits = {} THEN <<>> ELSE <<border_nodes[Min(hits)]>>

\* the first VLAN interface with that id, as <<vlan>>, or <<>> for None
find_vlan_info(vlan_interfaces, border_vlan_id) ==
    LET hits == {k \in 1..Len(vlan_interfaces) : vlan_interfaces[k].vlan = border_vlan_id}
    IN IF hits = {} THEN <<>> ELSE <<vlan_interfaces[Min(hits)]>>

\* f"Handoff to {bn_hostname} VLAN{border_vlan_id}" and its two siblings
handoff_description(prefix, bn_hostname, border_vlan_id) ==
    prefix \o bn_hostname \o <<" ", "V", "L", "A", "N">> \o border_vlan_id

\* the interface record of one resolved handoff, by interface_mode;
\* handoff_no is the handoff's place in the input list (kept for the record,
\* not in the code)
interface_data(interface_mode, handoff, handoff_no, bn_hostname, vlan_info, the_fusion_ip) ==
    LET border_vlan_id == handoff.border_vlan_id
        common(type, description) ==
            [type |-> type,
             ip_address |-> the_fusion_ip,
             subnet_mask |-> vlan_info.subnet_mask,
             description |-> description,
             vrf |-> handoff.vrf_name,
             bfd_enabled |-> vlan_info.bfd_enabled,
             bfd_interval |-> vlan_info.bfd_interval,
             bfd_min_rx |-> vlan_info.bfd_min_rx,
             bfd_multiplier |-> vlan_info.bfd_multiplier,
             handoff_no |-> handoff_no,
             name |-> Missing, vlan_id |-> Missing, parent_interface |-> Missing,
             subif_id |-> Missing, encapsulation |-> Missing]
    IN IF interface_mode = <<"r", "o", "u", "t", "e", "d">>
       THEN [common(<<"r", "o", "u", "t", "e", "d">>, handoff_description(<<"H", "a", "n", "d", "o", "f", "f", " ", "t", "o", " ">>, bn_hostname, border_vlan_id))
                EXCEPT !.name = handoff.interface_name]
       ELSE IF interface_mode = <<"s", "v", "i">>
       THEN [common(<<"s", "v", "i">>, handoff_description(<<"L", "3", " ", "H", "a", "n", "d", "o", "f", "f", " ", "t", "o", " ">>, bn_hostname, border_vlan_id))
                EXCEPT !.vlan_id = handoff.vlan_id]
       ELSE [common(<<"s", "u", "b", "i", "n", "t", "e", "r", "f", "a", "c", "e">>,
                    handoff_description(<<"S", "u", "b", "i", "f", " ", "t", "o", " ">>, bn_hostname, border_vlan_id))
                EXCEPT !.parent_interface = handoff.interface_name,
                       !.subif_id = handoff.subif_id,
                       !.encapsulation = <<"d", "o", "t", "1", "Q", " ">> \o handoff.subif_id]

\* source_interface, as each branch sets it
source_interface(interface_mode, handoff) ==
    IF interface_mode = <<"r", "o", "u", "t", "e", "d">> THEN handoff.interface_name
    ELSE IF interface_mode = <<"s", "v", "i">> THEN <<"V", "l", "a", "n">> \o handoff.vlan_id
    ELSE handoff.interface_name \o <<".">> \o handoff.subif_id

\* a plausible slip: the neighbor is the computed fusion address
neighbor_ip_fusion(vlan_info, the_fusion_ip) == the_fusion_ip

\* neighbor_data['ip']: the border node's address
neighbor_ip(vlan_info, the_fusion_ip) == vlan_info.ip_address

\* a plausible slip: next-hop-self is switched on for every neighbor
and_enabled_always(ibgp_config) == <<TRUE>>

\* ibgp_config and ibgp_config.get('enabled', False): <<>> for the None (or
\* empty dict) that `and` hands through, otherwise <<b>> for the bool b
and_enabled(ibgp_config) ==
    IF DOMAIN ibgp_config = {} THEN <<>> ELSE <<Get(ibgp_config, "enabled", FALSE)>>

\* the keys of the handoff dict each branch reads
mode_keys(interface_mode) ==
    IF interface_mode = <<"r", "o", "u", "t", "e", "d">> THEN {"interface_name", "vrf_name"}
    ELSE IF interface_mode = <<"s", "v", "i">> THEN {"vlan_id", "physical_interface", "vrf_name"}
    ELSE {"interface_name", "subif_id", "vrf_name"}

InterfaceModes == {<<"r", "o", "u", "t", "e", "d">>, <<"s", "v", "i">>, <<"s", "u", "b", "i", "n", "t", "e", "r", "f", "a", "c", "e">>}

synth_start ==
    [interfaces_config |-> <<>>, physical_interfaces_config |-> <<>>,
     vlans_config |-> <<>>, bgp_neighbors_default |-> <<>>,
     bgp_neighbors_vrf |-> <<>>, raised |-> None]

\* a plausible slip: a handoff that does not resolve is reported as an error
unresolved_raise(st) == [st EXCEPT !.raised = <<"V", "a", "l", "u", "e", "E", "r", "r", "o", "r">>]

\* `continue`: a handoff that does not resolve leaves everything as it is
unresolved_continue(st) == st

\* a plausible slip: the trunk list is never looked at
already_added_never(physical_interfaces_config, name) == FALSE

\* any(p['name'] == physical_if['name'] for p in physical_interfaces_config)
already_added(physical_interfaces_config, name) ==
    \E k \in 1..Len(physical_interfaces_config) : physical_interfaces_config[k].name = name

\* a plausible slip: a new entry is put in front
emit_front(list, entry) == <<entry>> \o list

\* list.append(entry)
emit(list, entry) == Append(list, entry)

\* one turn of the loop over router_handoffs
handoff_step(interface_mode, border_nodes, handoff, handoff_no, ibgp_config, st) ==
    IF ~({"border_hostname", "border_vlan_id"} \subseteq DOMAIN handoff)
    THEN [st EXCEPT !.raised = <<"K", "e", "y", "E", "r", "r", "o", "r">>]
    ELSE
    LET bn_hostname == handoff.border_hostname
        border_vlan_id == handoff.border_vlan_id
        border_node == find_border_node(border_nodes, bn_hostname)
        vlan_info == find_vlan_info(border_node[1].vlan_interfaces, border_vlan_id)
        the_fusion_ip == calculate_fusion_router_ip(vlan_info[1].ip_address)
    IN IF border_node = <<>> THEN unresolved_continue(st)
       ELSE IF vlan_info = <<>> THEN unresolved_continue(st)
       ELSE IF ~Truthy(the_fusion_ip) THEN unresolved_continue(st)
       ELSE IF interface_mode \notin InterfaceModes
            THEN [st EXCEPT !.raised = <<"U", "n", "b", "o", "u", "n", "d", "L", "o", "c", "a", "l", "E", "r", "r", "o", "r">>]
       ELSE IF ~(mode_keys(interface_mode) \subseteq DOMAIN handoff)
            THEN [st EXCEPT !.raised = <<"K", "e", "y", "E", "r", "r", "o", "r">>]
       ELSE
       LET vlan_id == handoff.vlan_id
           physical_if ==
               [name |-> handoff.physical_interface,
                description |-> <<"P", "h", "y", "s", "i", "c", "a", "l", " ", "l", "i", "n", "k", " ", "t", "o", " ">> \o bn_hostname,
                allowed_vlans |-> Get(handoff, "allowed_vlans", vlan_id),
                handoff_no |-> handoff_no]
           neighbor_data ==
               [ip |-> neighbor_ip(vlan_info[1], the_fusion_ip),
                remote_as |-> border_node[1].bgp.as_number,
                source_interface |-> source_interface(interface_mode, handoff),
                vrf |-> handoff.vrf_name,
                next_hop_self |-> and_enabled(ibgp_config),
                handoff_no |-> handoff_no]
       IN [st EXCEPT
             !.interfaces_config =
                 emit(@, interface_data(interface_mode, handoff, handoff_no, bn_hostname,
                                        vlan_info[1], the_fusion_ip)),
             !.vlans_config =
                 IF interface_mode = <<"s", "v", "i">>
                 THEN Append(@, [id |-> vlan_id, name |-> <<"H", "A", "N", "D", "O", "F", "F", "_">> \o border_vlan_id,
                                 handoff_no |-> handoff_no])
                 ELSE @,
             !.physical_interfaces_config =
                 IF interface_mode = <<"s", "v", "i">> /\ ~already_added(@, physical_if.name)
                 THEN Append(@, physical_if)
                 ELSE @,
             !.bgp_neighbors_default =
                 IF Truthy(handoff.vrf_name) THEN @ ELSE emit(@, neighbor_data),
             !.bgp_neighbors_vrf =
                 IF Truthy(handoff.vrf_name)
                 THEN LET reg == vrf_register(@, handoff.vrf_name)
                      IN [k \in 1..Len(reg) |->
                             IF reg[k].name = handoff.vrf_name
                             THEN [reg[k] EXCEPT !.neighbors = emit(@, neighbor_data)]
                             ELSE reg[k]]
                 ELSE @]

\* a plausible slip: each handoff is processed under its own interface_mode
handoff_mode_own(interface_mode, handoff) == handoff.interface_mode

\* the interface_mode the branches of the loop body test: the one read
\* before the loop, not a field of the handoff
handoff_mode(interface_mode, handoff) == interface_mode

\* the loop over router_handoffs; an exception ends it
RECURSIVE handoff_loop(_, _, _, _, _, _)
handoff_loop(interface_mode, border_nodes, handoffs, nos, ibgp_config, st) ==
    IF nos = <<>> \/ st.raised # None THEN st
    ELSE handoff_loop(interface_mode, border_nodes, handoffs, Tail(nos), ibgp_config,
                      handoff_step(handoff_mode(interface_mode, handoffs[Head(nos)]),
                                   border_nodes, handoffs[Head(nos)],
                                   Head(nos), ibgp_config, st))

\* the vrf_definitions loop: every build_vrf_config result, or the first
\* ValueError
RECURSIVE build_vrf_definitions(_, _)
build_vrf_definitions(vrf_configs, done) ==
    IF vrf_configs = <<>> THEN Returned(done)
    ELSE LET r == build_vrf_config(Head(vrf_configs))
         IN IF r.raised # None THEN r
            ELSE build_vrf_definitions(Tail(vrf_configs), Append(done, r.value))

\* the places in `handoffs` of the handoffs of this router, in order
router_handoff_nos_all(handoffs, router_id) == [k \in 1..Len(handoffs) |-> k]

\* router_handoffs, as the places of the input list it keeps
router_handoff_nos(handoffs, router_id) ==
    LET Mine(k) == handoffs[k].fusion_router_id = router_id
    IN SelectSeq([k \in 1..Len(handoffs) |-> k], Mine)

\* f"! No handoffs configured for {hostname}\n"
no_handoffs_text(hostname) == <<"!", " ", "N", "o", " ", "h", "a", "n", "d", "o", "f", "f", "s", " ", "c", "o", "n", "f", "i", "g", "u", "r", "e", "d", " ", "f", "o", "r", " ">> \o hostname \o <<"\n">>

\* what generate_fusion_router_config hands to the template (the rendering
\* itself is outside the model), the no-handoffs text, or the exception;
\* ibgp_config is <<>> for None
generate_fusion_router_config(fusion_router_params, border_nodes, handoffs, vrf_configs, ibgp_config) ==
    LET router_id == fusion_router_params.router_id
        nos == router_handoff_nos(handoffs, router_id)
        interface_mode == handoffs[nos[1]].interface_mode
        vrf_definitions == build_vrf_definitions(vrf_configs, <<>>)
        st == handoff_loop(interface_mode, border_nodes, handoffs, nos, ibgp_config,
                           synth_start)
    IN IF nos = <<>>
       THEN Returned([kind |-> "text",
                      text |-> no_handoffs_text(fusion_router_params.hostname)])
       ELSE IF vrf_definitions.raised # None THEN Raised(vrf_definitions.raised)
       ELSE IF st.raised # None THEN Raised(st.raised)
       ELSE Returned([kind |-> "rendered",
                      hostname |-> fusion_router_params.hostname,
                      router_id |-> fusion_router_params.bgp_router_id,
                      as_number |-> fusion_router_params.as_number,
                      interface_mode |-> interface_mode,
                      interfaces |-> st.interfaces_config,
                      physical_interfaces |-> st.physical_interfaces_config,
                      vlans |-> st.vlans_config,
                      bgp_neighbors_default |-> st.bgp_neighbors_default,
                      bgp_neighbors_vrf |-> st.bgp_neighbors_vrf,
                      vrf_definitions |-> vrf_definitions.value,
                      ibgp_config |-> ibgp_config])

\* ----------------------------------------------------- generate_config
\* jsonify({'error': ...}), status; or the 200 answer with the configs
Response(status, error, configs) == [status |-> status, error |-> error, configs |-> configs]

\* router_ibgp_config / router_ospf_config: the first projection with the
\* router's router_id, or <<>> for None
router_config_for(configs, router_params) ==
    LET hits == {k \in 1..Len(configs) : configs[k].router_id = router_params.router_id}
    IN IF hits = {} THEN <<>> ELSE configs[Min(hits)]

\* the generation summary: h['vrf_name'] of every handoff of every router and
\* saved_files[idx], one saved file per distinct hostname; None, or the name
\* of the exception
summary_raised(fusion_routers_, handoffs) ==
    LET hostnames == {fusion_routers_[i].hostname : i \in 1..Len(fusion_routers_)}
        NoVrfName(i) ==
            \E k \in 1..Len(handoffs) :
                /\ handoffs[k].fusion_router_id = fusion_routers_[i].router_id
                /\ "vrf_name" \notin DOMAIN handoffs[k]
        failing == {i \in 1..Len(fusion_routers_) : NoVrfName(i) \/ i > Cardinality(hostnames)}
    IN IF failing = {} THEN None
       ELSE IF NoVrfName(Min(failing)) THEN <<"K", "e", "y", "E", "r", "r", "o", "r">>
       ELSE <<"I", "n", "d", "e", "x", "E", "r", "r", "o", "r">>

\* ibgp_configs / ospf_configs of the request: built only when the params
\* are present and enabled
requested_configs(params, built) ==
    IF DOMAIN params # {} /\ Get(params, "enabled", FALSE) THEN built ELSE Returned(<<>>)

\* the per-router loop: each router's hostname, its projections and the
\* outcome of generate_fusion_router_config for it
router_runs(data, ibgp_configs, ospf_configs) ==
    [i \in 1..Len(data.fusion_routers) |->
        [hostname |-> data.fusion_routers[i].hostname,
         ibgp_config |-> router_config_for(ibgp_configs, data.fusion_routers[i]),
         ospf_config |-> router_config_for(ospf_configs, data.fusion_routers[i]),
         config |-> generate_fusion_router_config(
                        data.fusion_routers[i], data.border_nodes, data.handoffs,
                        data.vrf_configs,
                        router_config_for(ibgp_configs, data.fusion_routers[i]))]]

\* the response once every router has been run: the first failed run, a
\* failed summary, or the configurations
generate_response(data, runs, failed, summary) ==
    IF failed # {}
    THEN Response(500, <<"E", "r", "r", "o", "r", " ", "g", "e", "n", "e", "r", "a", "t", "i", "n", "g", " ", "c", "o", "n", "f", "i", "g", " ", "f", "o", "r", " ">> \o runs[Min(failed)].hostname
                           \o <<":", " ">> \o runs[Min(failed)].config.raised, <<>>)
    ELSE IF summary # None
    THEN Response(500, <<"E", "r", "r", "o", "r", " ", "g", "e", "n", "e", "r", "a", "t", "i", "n", "g", " ", "c", "o", "n", "f", "i", "g", "u", "r", "a", "t", "i", "o", "n", ":", " ">> \o summary, <<>>)
    ELSE Response(200, None, runs)

generate_runs(data, runs) ==
    generate_response(data, runs, {i \in 1..Len(runs) : runs[i].config.raised # None},
                      summary_raised(data.fusion_routers, data.handoffs))

generate_built(data, ibgp_configs, ospf_configs) ==
    IF ibgp_configs.raised # None THEN Response(400, ibgp_configs.raised, <<>>)
    ELSE IF ospf_configs.raised = <<"K", "e", "y", "E", "r", "r", "o", "r">>
    THEN Response(500, <<"E", "r", "r", "o", "r", " ", "g", "e", "n", "e", "r", "a", "t", "i", "n", "g", " ", "c", "o", "n", "f", "i", "g", "u", "r", "a", "t", "i", "o", "n", ":", " ", "K", "e", "y", "E", "r", "r", "o", "r">>, <<>>)
    ELSE IF ospf_configs.raised # None THEN Response(400, ospf_configs.raised, <<>>)
    ELSE generate_runs(data, router_runs(data, ibgp_configs.value, ospf_configs.value))

\* POST /generate: data is request.json; the files it saves are left out.
\* An exception other than the ValueError messages is named, not quoted.
generate_config(data) ==
    IF data.fusion_routers = <<>>
    THEN Response(400, <<"F", "u", "s", "i", "o", "n", " ", "r", "o", "u", "t", "e", "r", " ", "c", "o", "n", "f", "i", "g", "u", "r", "a", "t", "i", "o", "n", " ", "i", "s", " ", "r", "e", "q", "u", "i", "r", "e", "d">>, <<>>)
    ELSE IF data.border_nodes = <<>>
    THEN Response(400, <<"B", "o", "r", "d", "e", "r", " ", "n", "o", "d", "e", " ", "c", "o", "n", "f", "i", "g", "u", "r", "a", "t", "i", "o", "n", "s", " ", "a", "r", "e", " ", "r", "e", "q", "u", "i", "r", "e", "d">>, <<>>)
    ELSE IF data.handoffs = <<>>
    THEN Response(400, <<"N", "o", " ", "h", "a", "n", "d", "o", "f", "f", "s", " ", "c", "o", "n", "f", "i", "g", "u", "r", "e", "d">>, <<>>)
    ELSE IF data.vrf_configs = <<>>
    THEN Response(400, <<"V", "R", "F", " ", "c", "o", "n", "f", "i", "g", "u", "r", "a", "t", "i", "o", "n", "s", " ", "a", "r", "e", " ", "r", "e", "q", "u", "i", "r", "e", "d">>, <<>>)
    ELSE generate_built(data,
             requested_configs(data.ibgp_params,
                               build_ibgp_configs(data.fusion_routers, data.ibgp_params)),
             requested_configs(data.ospf_params,
                               build_ospf_configs(data.fusion_routers, data.ospf_params)))

\* ------------------------------------------------- components at rest
\* each specification below drives one component; the others stay at rest
AddrIdle == border_node_ip = <<>> /\ fusion_ip = Unset /\ back_ip = Unset /\ typed = 0

EmptyModel == parse(<<>>)

ParserIdle ==
    /\ pool = "none" /\ text = <<>> /\ parsed = EmptyModel
    /\ parsed_numbered = EmptyModel /\ upload = "none"

IbgpIdle == fusion_routers = <<>> /\ ibgp_params = <<>> /\ ibgp = Returned(<<>>)

NoCall == [fusion_router_params |-> <<>>, vrf_configs |-> <<>>, ibgp_config |-> <<>>]

SynthIdle == handoff_list = <<>> /\ call = NoCall /\ synth = Returned(<<>>)

NoRequest == [vrf_configs |-> <<>>, ospf_params |-> <<>>]
NoResponse == [status |-> 0, error |-> None, configs |-> <<>>]

GenIdle == request = NoRequest /\ response = NoResponse
ValIdle ==
    /\ rd_text = <<>> /\ rd_result = <<>>
    /\ ospf_request = <<>> /\ ospf_edits = 0 /\ ospf = Returned(<<>>)

\* ------------------------------------------------------ uploaded texts
\* the configuration lines the BGP stanza scan distinguishes
BgpLines ==
    << <<"r", "o", "u", "t", "e", "r", " ", "b", "g", "p", " ", "6", "5", "0", "0", "1">>,
       <<" ", "a", "d", "d", "r", "e", "s", "s", "-", "f", "a", "m", "i", "l", "y", " ", "i", "p", "v", "4">>,
       <<" ", "a", "d", "d", "r", "e", "s", "s", "-", "f", "a", "m", "i", "l", "y", " ", "i", "p", "v", "4", " ", "v", "r", "f", " ", "R", "E", "D">>,
       <<" ", "e", "x", "i", "t", "-", "a", "d", "d", "r", "e", "s", "s", "-", "f", "a", "m", "i", "l", "y">>,
       <<" ", "n", "e", "i", "g", "h", "b", "o", "r", " ", "1", "0", ".", "1", ".", "1", ".", "2", " ", "r", "e", "m", "o", "t", "e", "-", "a", "s", " ", "6", "5", "0", "0", "1">>,
       <<" ", "n", "e", "i", "g", "h", "b", "o", "r", " ", "1", "0", ".", "2", ".", "2", ".", "2", " ", "r", "e", "m", "o", "t", "e", "-", "a", "s", " ", "6", "5", "0", "0", "2">>,
       <<"!">>,
       <<" ", "a", "d", "d", "r", "e", "s", "s", "-", "f", "a", "m", "i", "l", "y", " ", "i", "p", "v", "4", " ", "v", "r", "f", " ", "B", "L", "U", "E">> >>

\* the configuration lines the VLAN interface scan distinguishes
VlanLines ==
    << <<"i", "n", "t", "e", "r", "f", "a", "c", "e", " ", "V", "l", "a", "n", "3", "7", "0", "4">>,
       <<"i", "n", "t", "e", "r", "f", "a", "c", "e", " ", "V", "l", "a", "n", "3", "7", "0", "5">>,
       <<" ", "i", "p", " ", "a", "d", "d", "r", "e", "s", "s", " ", "1", "0", ".", "1", ".", "1", ".", "1", " ", "2", "5", "5", ".", "2", "5", "5", ".", "2", "5", "5", ".", "2", "5", "2">>,
       <<" ", "i", "p", " ", "a", "d", "d", "r", "e", "s", "s", " ", "1", "0", ".", "2", ".", "2", ".", "1", " ", "2", "5", "5", ".", "2", "5", "5", ".", "2", "5", "5", ".", "0">>,
       <<" ", "v", "r", "f", " ", "f", "o", "r", "w", "a", "r", "d", "i", "n", "g", " ", "R", "E", "D">>,
       <<" ", "d", "e", "s", "c", "r", "i", "p", "t", "i", "o", "n", " ", "u", "p", "l", "i", "n", "k">>,
       <<" ", "b", "f", "d", " ", "i", "n", "t", "e", "r", "v", "a", "l", " ", "2", "5", "0", " ", "m", "i", "n", "_", "r", "x", " ", "2", "5", "0", " ", "m", "u", "l", "t", "i", "p", "l", "i", "e", "r", " ", "3">>,
       <<" ", "b", "f", "d", " ", "i", "n", "t", "e", "r", "v", "a", "l", " ", "2", "5", "0">>,
       <<"i", "n", "t", "e", "r", "f", "a", "c", "e", " ", "G", "i", "g", "a", "b", "i", "t", "E", "t", "h", "e", "r", "n", "e", "t", "0", "/", "0", "/", "1">> >>

\* lines of every stanza parse() reads, hostname lines with and without a
\* name, and a line whose content holds a '|'
FileLines ==
    << <<"h", "o", "s", "t", "n", "a", "m", "e", " ", "b", "n", "-", "0", "1">>,
       <<"h", "o", "s", "t", "n", "a", "m", "e", " ">>,
       <<"h", "o", "s", "t", "n", "a", "m", "e", " ", "h", "o", "s", "t", "n", "a", "m", "e", " ", "b", "n", "-", "0", "2">>,
       <<"i", "n", "t", "e", "r", "f", "a", "c", "e", " ", "L", "o", "o", "p", "b", "a", "c", "k", "0">>,
       <<" ", "i", "p", " ", "a", "d", "d", "r", "e", "s", "s", " ", "1", "0", ".", "1", ".", "1", ".", "1", " ", "2", "5", "5", ".", "2", "5", "5", ".", "2", "5", "5", ".", "2", "5", "2">>,
       <<"i", "n", "t", "e", "r", "f", "a", "c", "e", " ", "V", "l", "a", "n", "3", "7", "0", "4">>,
       <<"r", "o", "u", "t", "e", "r", " ", "b", "g", "p", " ", "6", "5", "0", "0", "1">>,
       <<" ", "a", "d", "d", "r", "e", "s", "s", "-", "f", "a", "m", "i", "l", "y", " ", "i", "p", "v", "4">>,
       <<" ", "n", "e", "i", "g", "h", "b", "o", "r", " ", "1", "0", ".", "1", ".", "1", ".", "2", " ", "r", "e", "m", "o", "t", "e", "-", "a", "s", " ", "6", "5", "0", "0", "1">>,
       <<"i", "n", "t", "e", "r", "f", "a", "c", "e", " ", "G", "i", "g", "a", "b", "i", "t", "E", "t", "h", "e", "r", "n", "e", "t", "0", "/", "0", "/", "1">>,
       <<" ", "s", "w", "i", "t", "c", "h", "p", "o", "r", "t", " ", "m", "o", "d", "e", " ", "t", "r", "u", "n", "k">>,
       <<"!">>,
       <<" ", "d", "e", "s", "c", "r", "i", "p", "t", "i", "o", "n", " ", "a", "|", "b">> >>

\* the configuration lines the Loopback0 scan distinguishes: the Loopback0
\* line, another loopback whose name begins the same, another interface, two
\* address lines and one that gives no address
LoopbackLines ==
    << <<"i", "n", "t", "e", "r", "f", "a", "c", "e", " ", "L", "o", "o", "p", "b", "a", "c", "k", "0">>,
       <<"i", "n", "t", "e", "r", "f", "a", "c", "e", " ", "L", "o", "o", "p", "b", "a", "c", "k", "0", "1">>,
       <<"i", "n", "t", "e", "r", "f", "a", "c", "e", " ", "V", "l", "a", "n", "3", "7", "0", "4">>,
       <<" ", "i", "p", " ", "a", "d", "d", "r", "e", "s", "s", " ", "1", "0", ".", "0", ".", "0", ".", "1", " ", "2", "5", "5", ".", "2", "5", "5", ".", "2", "5", "5", ".", "2", "5", "5">>,
       <<" ", "i", "p", " ", "a", "d", "d", "r", "e", "s", "s", " ", "1", "0", ".", "9", ".", "9", ".", "9", " ", "2", "5", "5", ".", "2", "5", "5", ".", "2", "5", "5", ".", "2", "5", "5">>,
       <<" ", "i", "p", " ", "a", "d", "d", "r", "e", "s", "s", " ">>,
       <<" ", "d", "e", "s", "c", "r", "i", "p", "t", "i", "o", "n", " ", "l", "o">> >>

LinePool(p) ==
    CASE p = "bgp" -> BgpLines
      [] p = "vlan" -> VlanLines
      [] p = "file" -> FileLines
      [] p = "loopback" -> LoopbackLines

\* the text with a line-number gutter in front of every line: " 12 |content"
with_gutter(config_lines) ==
    [i \in 1..Len(config_lines) |-> <<" ">> \o DecString(i) \o <<" ", "|">> \o config_lines[i]]

ParserInit(p) ==
    /\ phase = "input" /\ AddrIdle /\ IbgpIdle /\ SynthIdle /\ GenIdle /\ ValIdle
    /\ pool = p /\ text = <<>> /\ parsed = EmptyModel
    /\ parsed_numbered = EmptyModel /\ upload = "none"

\* the user's file grows by one line
AddLine ==
    /\ phase = "input"
    /\ pool # "none"
    /\ Len(text) < MaxLines
    /\ \E k \in 1..Len(LinePool(pool)) : text' = Append(text, LinePool(pool)[k])
    /\ UNCHANGED <<valVars, genVars, synthVars, phase, addrVars, ibgpVars, pool, parsed, parsed_numbered, upload>>

\* POST /upload with the file: CiscoConfigParser(config_text).parse() and the
\* hostname test of upload_configs
Upload ==
    /\ phase = "input"
    /\ pool # "none"
    /\ parsed' = parse(text)
    /\ upload' = upload_one(text)
    /\ phase' = "uploaded"
    /\ UNCHANGED <<valVars, genVars, synthVars, addrVars, ibgpVars, pool, text, parsed_numbered>>

\* the same file pasted with a line-number gutter is parsed
UploadNumbered ==
    /\ phase = "uploaded"
    /\ parsed_numbered' = parse(with_gutter(text))
    /\ phase' = "numbered"
    /\ UNCHANGED <<valVars, genVars, synthVars, addrVars, ibgpVars, pool, text, parsed, upload>>

ParserNext == AddLine \/ Upload \/ UploadNumbered

SpecBgp == ParserInit("bgp") /\ [][ParserNext]_vars
SpecVlan == ParserInit("vlan") /\ [][ParserNext]_vars
SpecUpload == ParserInit("file") /\ [][ParserNext]_vars
SpecLoopback == ParserInit("loopback") /\ [][ParserNext]_vars

\* ------------------------------------------------- AddressCalculator spec
\* the dot-separated fields address texts are made of: octets at and around
\* the /30 boundaries and the 255 limit, and fields ipaddress rejects
OctetPool ==
    { <<"0">>, <<"1">>, <<"2">>, <<"3">>, <<"5">>, <<"6">>, <<"1", "0">>,
      <<"2", "5", "5">>, <<"2", "5", "6">>, <<"0", "1">>, <<>>, <<"x">>,
      <<" ", "1">> }

AddrInit ==
    phase = "input" /\ AddrIdle /\ ParserIdle /\ IbgpIdle /\ SynthIdle /\ GenIdle /\ ValIdle

\* the caller supplies the address text, one dot-separated field at a time
TypeOctet ==
    /\ phase = "input"
    /\ typed < MaxOctets
    /\ \E o \in OctetPool :
           border_node_ip' = IF typed = 0 THEN o ELSE border_node_ip \o <<".">> \o o
    /\ typed' = typed + 1
    /\ UNCHANGED <<valVars, genVars, synthVars, phase, fusion_ip, back_ip, parserVars, ibgpVars>>

\* fusion_ip = calculate_fusion_router_ip(border_node_ip)
Calculate ==
    /\ phase = "input"
    /\ fusion_ip' = calculate_fusion_router_ip(border_node_ip)
    /\ phase' = "calculated"
    /\ UNCHANGED <<valVars, genVars, synthVars, border_node_ip, back_ip, typed, parserVars, ibgpVars>>

\* the result is fed back: calculate_fusion_router_ip(fusion_ip)
CalculateBack ==
    /\ phase = "calculated"
    /\ fusion_ip # None
    /\ back_ip' = calculate_fusion_router_ip(fusion_ip)
    /\ phase' = "returned"
    /\ UNCHANGED <<valVars, genVars, synthVars, border_node_ip, fusion_ip, typed, parserVars, ibgpVars>>

AddrNext == TypeOctet \/ Calculate \/ CalculateBack

SpecAddr == AddrInit /\ [][AddrNext]_vars

\* ----------------------------------------------------------------- C1, C2
\* x is dotted-decimal text of an IPv4 address that is the first or second
\* usable host of its /30
UsableHost(x) == ip_address(x) # NoAddr /\ ip_address(x)[4] % 4 \in {1, 2}
OtherHost(x) ==
    LET a == ip_address(x)
    IN ip_str([a EXCEPT ![4] = IF a[4] % 4 = 1 THEN a[4] + 1 ELSE a[4] - 1])

\* C1: for an address that is a usable host of its /30 the result is the
\* other usable host of that /30, and applying the function to the result
\* gives the address back.
C1_RoundTrip ==
    /\ (phase \in {"calculated", "returned"} /\ UsableHost(border_node_ip))
           => (fusion_ip = OtherHost(border_node_ip) /\ UsableHost(fusion_ip))
    /\ (phase = "returned" /\ UsableHost(border_node_ip)) => back_ip = border_node_ip

C1_Witness ==
    /\ phase = "returned"
    /\ UsableHost(border_node_ip)
    /\ ip_address(border_node_ip)[4] = 6
    /\ back_ip = border_node_ip

\* C2: the result is None exactly when the text is not a well-formed IPv4
\* address or is the network or broadcast address of its /30; otherwise it
\* is a usable host of the same /30.
Malformed(x) == ip_address(x) = NoAddr
NetworkOrBroadcast(x) == ip_address(x) # NoAddr /\ ip_address(x)[4] % 4 \in {0, 3}

DefaultAfLine(l) == Contains(l, <<"a", "d", "d", "r", "e", "s", "s", "-", "f", "a", "m", "i", "l", "y", " ", "i", "p", "v", "4">>) /\ ~Contains(l, <<"v", "r", "f">>)

\* C6: every entry of default_vrf_neighbors was read from a line that has a
\* line containing `address-family ipv4` without `vrf` somewhere before it;
\* a neighbor line with no such line before it is never in the list.
C6_DefaultGate ==
    phase # "input" =>
        \A k \in 1..Len(parsed.bgp.default_vrf_neighbors) :
            \E j \in 1..(parsed.bgp.default_vrf_neighbors[k].line_no - 1) :
                DefaultAfLine(cleaned_lines(text)[j])

\* a neighbor line ahead of the default address-family line is left out while
\* the one after it is taken
C6_Witness ==
    /\ phase = "uploaded"
    /\ text = <<BgpLines[1], BgpLines[5], BgpLines[2], BgpLines[6]>>
    /\ Len(parsed.bgp.default_vrf_neighbors) = 1
    /\ parsed.bgp.default_vrf_neighbors[1].line_no = 4

\* ------------------------------------------------------------------- C7
\* C7: every VLAN interface get_vlan_interfaces returns has subnet_mask
\* 255.255.255.252, and the records come in the order of the `interface Vlan`
\* lines they were opened at.
C7_VlanFilter ==
    phase # "input" =>
        LET v == parsed.vlan_interfaces
        IN /\ \A k \in 1..Len(v) :
                  /\ v[k].subnet_mask = <<"2", "5", "5", ".", "2", "5", "5", ".", "2", "5", "5", ".", "2", "5", "2">>
                  /\ StartsWith(cleaned_lines(text)[v[k].line_no], <<"i", "n", "t", "e", "r", "f", "a", "c", "e", " ", "V", "l", "a", "n">>)
           /\ \A k \in 1..(Len(v) - 1) : v[k].line_no < v[k + 1].line_no

\* two /30 VLAN interfaces are kept, in file order
C7_Witness ==
    /\ phase = "uploaded"
    /\ Len(parsed.vlan_interfaces) = 2
    /\ parsed.vlan_interfaces[1].vlan = <<"3", "7", "0", "5">>
    /\ parsed.vlan_interfaces[2].vlan = <<"3", "7", "0", "4">>

\* ------------------------------------------------------------------- C8
NoBar(config_lines) == \A i \in 1..Len(config_lines) : ~Contains(config_lines[i], <<"|">>)

\* C8: for a text none of whose lines holds a '|', the text with a
\* line-number gutter on every line parses to the same model.
C8_GutterStripping ==
    (phase = "numbered" /\ NoBar(text)) => parsed_numbered = parsed

C8_Witness ==
    /\ phase = "numbered"
    /\ NoBar(text)
    /\ parsed.hostname = <<"b", "n", "-", "0", "1">>
    /\ Len(parsed.vlan_interfaces) = 1
    /\ parsed_numbered = parsed

\* ------------------------------------------------------------------- C9
HostnameLines(lines) == {i \in 1..Len(lines) : StartsWith(lines[i], <<"h", "o", "s", "t", "n", "a", "m", "e", " ">>)}

NameField(line) ==
    LET rest == Drop(line, 9)
        k == Find(rest, <<"h", "o", "s", "t", "n", "a", "m", "e", " ">>)
    IN IF k = 0 THEN rest ELSE SubSeq(rest, 1, k - 1)
Blank(s) == \A i \in 1..Len(s) : s[i] \in Whitespace

RouterPool ==
    { [router_id |-> r,
       hostname |-> IF r = 1 THEN <<"f", "u", "s", "i", "o", "n", "-", "0", "1">> ELSE <<"f", "u", "s", "i", "o", "n", "-", "0", "2">>,
       bgp_router_id |-> id,
       as_number |-> asn] :
      r \in {1, 2}, id \in {<<"1", "0", ".", "0", ".", "0", ".", "1">>, <<"1", "0", ".", "0", ".", "0", ".", "2">>}, asn \in {<<"6", "5", "0", "0", "0">>, <<"6", "5", "0", "0", "1">>} }

\* ibgp_params of a request: absent or empty, disabled, enabled with the BFD
\* keys left out, enabled with all of them given
IbgpParamsPool ==
    { <<>>,
      [enabled |-> FALSE],
      [enabled |-> TRUE],
      [enabled |-> TRUE, bfd_enabled |-> FALSE, bfd_interval |-> 300,
       bfd_min_rx |-> 300, bfd_multiplier |-> 5] }

IbgpInit ==
    /\ phase = "input" /\ AddrIdle /\ ParserIdle /\ SynthIdle /\ GenIdle /\ ValIdle
    /\ fusion_routers = <<>>
    /\ ibgp_params \in IbgpParamsPool
    /\ ibgp = Returned(<<>>)

\* the request names one more fusion router
AddRouter ==
    /\ phase = "input"
    /\ Len(fusion_routers) < MaxRouters
    /\ \E r \in RouterPool : fusion_routers' = Append(fusion_routers, r)
    /\ UNCHANGED <<valVars, genVars, synthVars, phase, addrVars, parserVars, ibgp_params, ibgp>>

\* ibgp_configs = build_ibgp_configs(fusion_routers, ibgp_params)
BuildIbgp ==
    /\ phase = "input"
    /\ ibgp' = build_ibgp_configs(fusion_routers, ibgp_params)
    /\ phase' = "ibgp_built"
    /\ UNCHANGED <<valVars, genVars, synthVars, addrVars, parserVars, fusion_routers, ibgp_params>>

IbgpNext == AddRouter \/ BuildIbgp

SpecIbgp == IbgpInit /\ [][IbgpNext]_vars

\* ------------------------------------------------------------------ C10
IbgpEnabled == DOMAIN ibgp_params # {} /\ ibgp_params.enabled

\* C10: with iBGP enabled and two fusion routers, differing AS numbers end
\* in the mismatch error, which names both values, and no projection; equal
\* AS numbers give exactly two projections, each with update_source
\* Loopback0 and the other router's bgp_router_id as peer_ip.
C10_IbgpPair ==
    (phase = "ibgp_built" /\ IbgpEnabled /\ Len(fusion_routers) = 2) =>
        IF fusion_routers[1].as_number # fusion_routers[2].as_number
        THEN /\ ibgp.raised # None
             /\ Contains(ibgp.raised, <<"s", "a", "m", "e", " ", "A", "S", " ", "n", "u", "m", "b", "e", "r">>)
             /\ Contains(ibgp.raised, fusion_routers[1].as_number)
             /\ Contains(ibgp.raised, fusion_routers[2].as_number)
             /\ ibgp.value = <<>>
        ELSE /\ ibgp.raised = None
             /\ Len(ibgp.value) = 2
             /\ \A i \in 1..2 :
                    /\ ibgp.value[i].update_source = <<"L", "o", "o", "p", "b", "a", "c", "k", "0">>
                    /\ ibgp.value[i].peer_ip = fusion_routers[3 - i].bgp_router_id
                    /\ ibgp.value[i].router_id = fusion_routers[i].router_id

C10_Witness ==
    /\ phase = "ibgp_built"
    /\ IbgpEnabled
    /\ Len(fusion_routers) = 2
    /\ fusion_routers[1].as_number = fusion_routers[2].as_number
    /\ fusion_routers[1].bgp_router_id # fusion_routers[2].bgp_router_id
    /\ Len(ibgp.value) = 2
    /\ ibgp.value[1].peer_ip = fusion_routers[2].bgp_router_id

\* ----------------------------------------------- FusionConfigSynthesizer
\* the border nodes of a generate request: what parse() made of two uploads.
\* bn-01 has a /30 VLAN with BFD and a VLAN on the network address of its
\* /30; bn-02 has a VLAN inside a VRF.
BorderNodeTexts ==
    << << <<"h", "o", "s", "t", "n", "a", "m", "e", " ", "b", "n", "-", "0", "1">>,
          <<"i", "n", "t", "e", "r", "f", "a", "c", "e", " ", "V", "l", "a", "n", "3", "7", "0", "4">>,
          <<" ", "i", "p", " ", "a", "d", "d", "r", "e", "s", "s", " ", "1", "0", ".", "1", ".", "1", ".", "1", " ", "2", "5", "5", ".", "2", "5", "5", ".", "2", "5", "5", ".", "2", "5", "2">>,
          <<" ", "b", "f", "d", " ", "i", "n", "t", "e", "r", "v", "a", "l", " ", "2", "5", "0", " ", "m", "i", "n", "_", "r", "x", " ", "2", "5", "0", " ", "m", "u", "l", "t", "i", "p", "l", "i", "e", "r", " ", "3">>,
          <<"i", "n", "t", "e", "r", "f", "a", "c", "e", " ", "V", "l", "a", "n", "3", "7", "0", "5">>,
          <<" ", "i", "p", " ", "a", "d", "d", "r", "e", "s", "s", " ", "1", "0", ".", "1", ".", "1", ".", "4", " ", "2", "5", "5", ".", "2", "5", "5", ".", "2", "5", "5", ".", "2", "5", "2">>,
          <<"r", "o", "u", "t", "e", "r", " ", "b", "g", "p", " ", "6", "5", "0", "0", "1">> >>,
       << <<"h", "o", "s", "t", "n", "a", "m", "e", " ", "b", "n", "-", "0", "2">>,
          <<"i", "n", "t", "e", "r", "f", "a", "c", "e", " ", "V", "l", "a", "n", "3", "7", "0", "8">>,
          <<" ", "v", "r", "f", " ", "f", "o", "r", "w", "a", "r", "d", "i", "n", "g", " ", "R", "E", "D">>,
          <<" ", "i", "p", " ", "a", "d", "d", "r", "e", "s", "s", " ", "1", "0", ".", "2", ".", "2", ".", "6", " ", "2", "5", "5", ".", "2", "5", "5", ".", "2", "5", "5", ".", "2", "5", "2">>,
          <<"r", "o", "u", "t", "e", "r", " ", "b", "g", "p", " ", "6", "5", "0", "0", "2">> >> >>

BorderNodes == [b \in 1..Len(BorderNodeTexts) |-> parse(BorderNodeTexts[b])]

\* the fusion-side ports a handoff may name; both sit on the same trunk
PortA ==
    [interface_name |-> <<"G", "i", "0", "/", "0", "/", "1">>, physical_interface |-> <<"G", "i", "0", "/", "0", "/", "1">>,
     vlan_id |-> <<"1", "0", "0">>, subif_id |-> <<"1", "0">>]
PortB ==
    [interface_name |-> <<"G", "i", "0", "/", "0", "/", "2">>, physical_interface |-> <<"G", "i", "0", "/", "0", "/", "1">>,
     vlan_id |-> <<"2", "0", "0">>, subif_id |-> <<"2", "0">>, allowed_vlans |-> <<"1", "0", "0", ",", "2", "0", "0">>]

\* a handoff dict with the keys the request documents; allowed_vlans only
\* when the port gives it
Handoff(host, vlan, rid, mode, vrf, port) ==
    LET h == [border_hostname |-> host, border_vlan_id |-> vlan,
              fusion_router_id |-> rid, interface_mode |-> mode,
              interface_name |-> port.interface_name,
              vlan_id |-> port.vlan_id, subif_id |-> port.subif_id,
              vrf_name |-> vrf,
              physical_interface |-> port.physical_interface]
    IN IF "allowed_vlans" \in DOMAIN port
       THEN h @@ ("allowed_vlans" :> port.allowed_vlans)
       ELSE h

\* a handoff dict that names its target and nothing else
BareHandoff(host, vlan, rid, mode) ==
    [border_hostname |-> host, border_vlan_id |-> vlan,
     fusion_router_id |-> rid, interface_mode |-> mode]

\* the handoffs a request may list: every mode and VRF placement on targets
\* that resolve, a target on a network address (bn-01/3705), an unknown
\* hostname (bn-xx), a VLAN the node does not have (bn-02/3704), handoffs of
\* router 2, and handoffs without the per-mode keys
HandoffPool ==
    { Handoff(<<"b", "n", "-", "0", "1">>, <<"3", "7", "0", "4">>, 1, <<"r", "o", "u", "t", "e", "d">>, <<"R", "E", "D">>, PortA),
      Handoff(<<"b", "n", "-", "0", "1">>, <<"3", "7", "0", "4">>, 1, <<"s", "v", "i">>, None, PortA),
      Handoff(<<"b", "n", "-", "0", "1">>, <<"3", "7", "0", "4">>, 1, <<"s", "u", "b", "i", "n", "t", "e", "r", "f", "a", "c", "e">>, <<"B", "L", "U", "E">>, PortA),
      Handoff(<<"b", "n", "-", "0", "2">>, <<"3", "7", "0", "8">>, 1, <<"r", "o", "u", "t", "e", "d">>, <<"B", "L", "U", "E">>, PortB),
      Handoff(<<"b", "n", "-", "0", "2">>, <<"3", "7", "0", "8">>, 1, <<"s", "v", "i">>, <<>>, PortB),
      Handoff(<<"b", "n", "-", "0", "2">>, <<"3", "7", "0", "8">>, 1, <<"s", "u", "b", "i", "n", "t", "e", "r", "f", "a", "c", "e">>, <<"R", "E", "D">>, PortB),
      Handoff(<<"b", "n", "-", "0", "1">>, <<"3", "7", "0", "5">>, 1, <<"r", "o", "u", "t", "e", "d">>, <<"R", "E", "D">>, PortA),
      Handoff(<<"b", "n", "-", "x", "x">>, <<"3", "7", "0", "4">>, 1, <<"s", "v", "i">>, None, PortB),
      Handoff(<<"b", "n", "-", "0", "2">>, <<"3", "7", "0", "4">>, 1, <<"s", "u", "b", "i", "n", "t", "e", "r", "f", "a", "c", "e">>, <<"B", "L", "U", "E">>, PortA),
      Handoff(<<"b", "n", "-", "0", "1">>, <<"3", "7", "0", "4">>, 2, <<"r", "o", "u", "t", "e", "d">>, <<"R", "E", "D">>, PortA),
      Handoff(<<"b", "n", "-", "0", "1">>, <<"3", "7", "0", "5">>, 2, <<"s", "v", "i">>, None, PortB),
      BareHandoff(<<"b", "n", "-", "x", "x">>, <<"3", "7", "0", "8">>, 1, <<"r", "o", "u", "t", "e", "d">>),
      BareHandoff(<<"b", "n", "-", "0", "1">>, <<"3", "7", "0", "4">>, 1, <<"s", "v", "i">>) }

\* the fusion routers a call may be made for
SynthRouterPool ==
    { [router_id |-> 1, hostname |-> <<"f", "u", "s", "i", "o", "n", "-", "0", "1">>, bgp_router_id |-> <<"1", "0", ".", "0", ".", "0", ".", "1">>,
       as_number |-> <<"6", "5", "0", "0", "0">>],
      [router_id |-> 2, hostname |-> <<"f", "u", "s", "i", "o", "n", "-", "0", "2">>, bgp_router_id |-> <<"1", "0", ".", "0", ".", "0", ".", "2">>,
       as_number |-> <<"6", "5", "0", "0", "0">>] }

\* a VRF name one character longer than validate_vrf_name allows
LongName == [i \in 1..(MaxVrfNameLen + 1) |-> "A"]

\* vrf_configs of a request: all valid; or with one entry whose name is not
\* allowed, is too long or is not given, whose route distinguisher is not
\* one or is not given, whose enabled route target is not one, or whose
\* name ends in a newline
VrfConfigPool ==
    { << [name |-> <<"R", "E", "D">>, rd |-> <<"6", "5", "0", "0", "0", ":", "1", "0", "0">>,
          rt_export_enabled |-> TRUE, rt_export_value |-> <<"6", "5", "0", "0", "0", ":", "1", "0", "0">>,
          rt_import_enabled |-> FALSE, rt_import_value |-> None],
         [name |-> <<"B", "L", "U", "E">>, rd |-> <<"1", "0", ".", "0", ".", "0", ".", "1", ":", "2", "0", "0">>] >>,
      << [name |-> <<"R", "E", "D">>, rd |-> <<"6", "5", "0", "0", "0", ":", "1", "0", "0">>],
         [name |-> <<"B", "A", "D", " ", "N", "A", "M", "E">>, rd |-> <<"6", "5", "0", "0", "0", ":", "2", "0", "0">>] >>,
      << [name |-> <<"R", "E", "D">>, rd |-> <<"6", "5", "0", "0", "0">>] >>,
      << [name |-> LongName, rd |-> <<"6", "5", "0", "0", "0", ":", "1", "0", "0">>] >>,
      << [rd |-> <<"6", "5", "0", "0", "0", ":", "1", "0", "0">>] >>,
      << [name |-> <<"R", "E", "D">>] >>,
      << [name |-> <<"R", "E", "D">>, rd |-> <<"6", "5", "0", "0", "0", ":", "1", "0", "0">>,
          rt_export_enabled |-> TRUE, rt_export_value |-> <<"6", "5", "0", "0", "0", ":", "x">>] >>,
      << [name |-> <<"B", "L", "U", "E">>, rd |-> <<"1", "0", ".", "0", ".", "0", ".", "1", ":", "2", "0", "0">>],
         [name |-> <<"R", "E", "D">>, rd |-> <<"6", "5", "0", "0", "0", ":", "1", "0", "0">>,
          rt_import_enabled |-> TRUE, rt_import_value |-> None] >>,
      << [name |-> <<"R", "E", "D">> \o <<"\n">>, rd |-> <<"6", "5", "0", "0", "0", ":", "1", "0", "0">>] >> }

\* the router-scoped ibgp_config: None, a dict that is not enabled, or a
\* projection build_ibgp_configs made for this router
IbgpConfigPool(router) ==
    { <<>>,
      [enabled |-> FALSE, router_id |-> router.router_id],
      ibgp_config_for(router,
                      CHOOSE r \in SynthRouterPool : r.router_id # router.router_id,
                      [enabled |-> TRUE]) }

SynthInit ==
    phase = "input" /\ AddrIdle /\ ParserIdle /\ IbgpIdle /\ SynthIdle /\ GenIdle /\ ValIdle

\* the request lists one more handoff
AddHandoff ==
    /\ phase = "input"
    /\ Len(handoff_list) < MaxHandoffs
    /\ \E h \in HandoffPool : handoff_list' = Append(handoff_list, h)
    /\ UNCHANGED <<valVars, genVars, phase, addrVars, parserVars, ibgpVars, call, synth>>

\* generate_fusion_router_config(router_params, border_nodes, handoffs,
\*                               vrf_configs, ibgp_config) for one router
Synthesize ==
    /\ phase = "input"
    /\ \E router \in SynthRouterPool, vrf_configs \in VrfConfigPool :
       \E ibgp_config \in IbgpConfigPool(router) :
           /\ call' = [fusion_router_params |-> router, vrf_configs |-> vrf_configs,
                       ibgp_config |-> ibgp_config]
           /\ synth' = generate_fusion_router_config(router, BorderNodes, handoff_list,
                                                     vrf_configs, ibgp_config)
    /\ phase' = "synthesized"
    /\ UNCHANGED <<valVars, genVars, addrVars, parserVars, ibgpVars, handoff_list>>

SynthNext == AddHandoff \/ Synthesize

SpecSynth == SynthInit /\ [][SynthNext]_vars

\* ------------------------------------------------------------ C3, C4, C5
\* the handoffs of the router the call was made for, as places in the list
Selected == {k \in 1..Len(handoff_list) :
                handoff_list[k].fusion_router_id = call.fusion_router_params.router_id}

\* the border nodes with the hostname the handoff names, and the VLAN
\* interfaces of such a node with the VLAN id it names
NodesNamed(h) == {b \in 1..Len(BorderNodes) : BorderNodes[b].hostname = h.border_hostname}
NodeNamed(h) == BorderNodes[CHOOSE b \in NodesNamed(h) : TRUE]
VlansNamed(h) ==
    {v \in 1..Len(NodeNamed(h).vlan_interfaces) :
        NodeNamed(h).vlan_interfaces[v].vlan = h.border_vlan_id}
VlanNamed(h) == NodeNamed(h).vlan_interfaces[CHOOSE v \in VlansNamed(h) : TRUE]

\* border node, VLAN interface and complement address all resolve
Resolves(h) ==
    /\ NodesNamed(h) # {}
    /\ VlansNamed(h) # {}
    /\ UsableHost(VlanNamed(h).ip_address)

\* the mode of the call: the interface_mode of the first selected handoff
CallMode == handoff_list[Min(Selected)].interface_mode

\* the handoff has the fields its mode needs
Shaped(h) ==
    /\ "vrf_name" \in DOMAIN h
    /\ CallMode = <<"r", "o", "u", "t", "e", "d">> => "interface_name" \in DOMAIN h
    /\ CallMode = <<"s", "v", "i">> => {"vlan_id", "physical_interface"} \subseteq DOMAIN h
    /\ CallMode = <<"s", "u", "b", "i", "n", "t", "e", "r", "f", "a", "c", "e">> => {"interface_name", "subif_id"} \subseteq DOMAIN h

\* a call that the VRF specs or the shape of a resolving handoff cannot fail
SoundCall ==
    /\ phase = "synthesized"
    /\ Selected # {}
    /\ \A v \in 1..Len(call.vrf_configs) : build_vrf_config(call.vrf_configs[v]).raised = None
    /\ \A k \in Selected : Resolves(handoff_list[k]) => Shaped(handoff_list[k])

\* all neighbor records of the output, default VRF and named buckets
RECURSIVE Flatten(_)
Flatten(buckets) ==
    IF buckets = <<>> THEN <<>> ELSE Head(buckets).neighbors \o Flatten(Tail(buckets))
AllNeighbors == synth.value.bgp_neighbors_default \o Flatten(synth.value.bgp_neighbors_vrf)

\* the places of a list whose record came from handoff k
From(list, k) == {j \in 1..Len(list) : list[j].handoff_no = k}

\* the identity of an emitted interface record, by its kind
Identity(i) ==
    IF i.type = <<"r", "o", "u", "t", "e", "d">> THEN i.name
    ELSE IF i.type = <<"s", "v", "i">> THEN <<"V", "l", "a", "n">> \o i.vlan_id
    ELSE i.parent_interface \o <<".">> \o i.subif_id

\* the interface identity the handoff asks for under the call's mode
Asked(h) ==
    IF CallMode = <<"r", "o", "u", "t", "e", "d">> THEN h.interface_name
    ELSE IF CallMode = <<"s", "v", "i">> THEN <<"V", "l", "a", "n">> \o h.vlan_id
    ELSE h.interface_name \o <<".">> \o h.subif_id

\* C3: every selected handoff that resolves has one interface record, whose
\* address is the /30 complement of the border VLAN address, and one BGP
\* neighbor record, whose peer address is the border VLAN address itself,
\* whose remote AS is the border node's AS number, whose VRF is the
\* handoff's, and whose source interface is the identity of that interface
\* record (interface_name, Vlan<vlan_id> or <parent>.<subif_id> by mode).
C3_HandoffRecords ==
    SoundCall =>
        /\ synth.raised = None
        /\ \A k \in Selected :
              Resolves(handoff_list[k]) =>
                 LET h == handoff_list[k]
                     is == From(synth.value.interfaces, k)
                     ns == From(AllNeighbors, k)
                 IN /\ Cardinality(is) = 1
                    /\ Cardinality(ns) = 1
                    /\ \A i \in is, n \in ns :
                         LET ifc == synth.value.interfaces[i]
                             nbr == AllNeighbors[n]
                         IN /\ ifc.ip_address = OtherHost(VlanNamed(h).ip_address)
                            /\ ifc.type = CallMode
                            /\ nbr.ip = VlanNamed(h).ip_address
                            /\ nbr.ip # ifc.ip_address
                            /\ nbr.remote_as = NodeNamed(h).bgp.as_number
                            /\ nbr.vrf = h.vrf_name
                            /\ ifc.vrf = h.vrf_name
                            /\ nbr.source_interface = Identity(ifc)
                            /\ nbr.source_interface = Asked(h)

C3_Witness ==
    /\ SoundCall
    /\ synth.raised = None
    /\ CallMode = <<"s", "v", "i">>
    /\ \E k \in Selected :
          /\ Resolves(handoff_list[k])
          /\ handoff_list[k].border_hostname = <<"b", "n", "-", "0", "2">>
          /\ \E n \in From(AllNeighbors, k) :
                /\ AllNeighbors[n].ip = <<"1", "0", ".", "2", ".", "2", ".", "6">>
                /\ AllNeighbors[n].remote_as = <<"6", "5", "0", "0", "2">>
                /\ AllNeighbors[n].source_interface = <<"V", "l", "a", "n", "2", "0", "0">>
          /\ \E i \in From(synth.value.interfaces, k) :
                synth.value.interfaces[i].ip_address = <<"1", "0", ".", "2", ".", "2", ".", "5">>

\* the handoffs the records of a list came from are in input order
InInputOrder(list) ==
    \A i, j \in 1..Len(list) : i < j => list[i].handoff_no < list[j].handoff_no

\* the selected handoffs that resolve, in input order
ResolvedInOrder ==
    LET Ok(k) == k \in Selected /\ Resolves(handoff_list[k])
    IN SelectSeq([k \in 1..Len(handoff_list) |-> k], Ok)

\* C4: the interface list, the default-VRF neighbor list and the neighbor
\* list of every named VRF bucket hold their entries in the order in which
\* the handoffs they came from stand in the input list, whatever handoffs
\* were skipped in between.
C4_InputOrder ==
    (SoundCall /\ synth.raised = None) =>
        /\ InInputOrder(synth.value.interfaces)
        /\ InInputOrder(synth.value.bgp_neighbors_default)
        /\ \A b \in 1..Len(synth.value.bgp_neighbors_vrf) :
              InInputOrder(synth.value.bgp_neighbors_vrf[b].neighbors)
        /\ [j \in 1..Len(synth.value.interfaces) |-> synth.value.interfaces[j].handoff_no]
              = ResolvedInOrder
        /\ [j \in 1..Len(synth.value.interfaces) |-> synth.value.interfaces[j].ip_address]
              = [j \in 1..Len(ResolvedInOrder) |->
                    OtherHost(VlanNamed(handoff_list[ResolvedInOrder[j]]).ip_address)]

C4_Witness ==
    /\ SoundCall
    /\ synth.raised = None
    /\ Len(handoff_list) = 3
    /\ Selected = {1, 2, 3}
    /\ NodesNamed(handoff_list[2]) = {}
    /\ "vrf_name" \notin DOMAIN handoff_list[2]
    /\ handoff_list[1].border_hostname # handoff_list[3].border_hostname
    /\ Len(synth.value.interfaces) = 2
    /\ \E b \in 1..Len(synth.value.bgp_neighbors_vrf) :
          LET ns == synth.value.bgp_neighbors_vrf[b].neighbors
          IN /\ Len(ns) = 2
             /\ ns[1].ip = VlanNamed(handoff_list[1]).ip_address
             /\ ns[2].ip = VlanNamed(handoff_list[3]).ip_address

\* C5: a selected handoff naming an unknown border node, a VLAN the node
\* does not have, or a VLAN whose address has no /30 complement raises
\* nothing and leaves no interface, VLAN definition, trunk record or
\* neighbor in the output, and every selected handoff that resolves still
\* has its interface and its neighbor.
C5_SkipSilently ==
    SoundCall =>
        /\ synth.raised = None
        /\ \A k \in Selected :
              IF Resolves(handoff_list[k])
              THEN /\ From(synth.value.interfaces, k) # {}
                   /\ From(AllNeighbors, k) # {}
              ELSE /\ From(synth.value.interfaces, k) = {}
                   /\ From(synth.value.vlans, k) = {}
                   /\ From(synth.value.physical_interfaces, k) = {}
                   /\ From(AllNeighbors, k) = {}
        /\ Len(synth.value.interfaces) = Len(ResolvedInOrder)
        /\ Len(AllNeighbors) = Len(ResolvedInOrder)
        /\ Len(synth.value.vlans) \in {0, Len(ResolvedInOrder)}
        /\ Len(synth.value.physical_interfaces) <= Len(ResolvedInOrder)

C5_Witness ==
    /\ SoundCall
    /\ synth.raised = None
    /\ Len(handoff_list) = 3
    /\ Selected = {1, 2, 3}
    /\ NodesNamed(handoff_list[1]) # {} /\ VlansNamed(handoff_list[1]) = {}
    /\ NodesNamed(handoff_list[2]) # {} /\ VlansNamed(handoff_list[2]) # {}
    /\ ~Resolves(handoff_list[2])
    /\ Resolves(handoff_list[3])
    /\ Len(synth.value.interfaces) = 1
    /\ Len(AllNeighbors) = 1
    /\ AllNeighbors[1].handoff_no = 3

\* ------------------------------------------------------ POST /generate
\* the fusion routers of a generate request
GenRouterPool ==
    { [router_id |-> r,
       hostname |-> IF r = 1 THEN <<"f", "u", "s", "i", "o", "n", "-", "0", "1">> ELSE <<"f", "u", "s", "i", "o", "n", "-", "0", "2">>,
       bgp_router_id |-> IF r = 1 THEN <<"1", "0", ".", "0", ".", "0", ".", "1">> ELSE <<"1", "0", ".", "0", ".", "0", ".", "2">>,
       as_number |-> asn] :
      r \in {1, 2}, asn \in {<<"6", "5", "0", "0", "0">>, <<"6", "5", "0", "0", "1">>} }

\* its handoffs: one of router 1 into a VRF, one of router 2 into the
\* default VRF, and one that names an unknown border node and nothing else
GenHandoffPool ==
    { Handoff(<<"b", "n", "-", "0", "1">>, <<"3", "7", "0", "4">>, 1, <<"r", "o", "u", "t", "e", "d">>, <<"R", "E", "D">>, PortA),
      Handoff(<<"b", "n", "-", "0", "2">>, <<"3", "7", "0", "8">>, 2, <<"r", "o", "u", "t", "e", "d">>, None, PortB),
      BareHandoff(<<"b", "n", "-", "x", "x">>, <<"3", "7", "0", "4">>, 1, <<"r", "o", "u", "t", "e", "d">>) }

\* its vrf_configs: valid, or with a route distinguisher that is not one
GenVrfConfigPool ==
    { << [name |-> <<"R", "E", "D">>, rd |-> <<"6", "5", "0", "0", "0", ":", "1", "0", "0">>] >>,
      << [name |-> <<"R", "E", "D">>, rd |-> <<"6", "5", "0", "0", "0">>] >> }

\* its ospf_params: absent, or enabled and valid
GenOspfParamsPool ==
    { <<>>,
      [enabled |-> TRUE, process_id |-> PyInt(<<"1">>), area |-> PyInt(<<"0">>),
       interface_mode |-> <<"p", "h", "y", "s", "i", "c", "a", "l">>,
       router1_interface |-> <<"G", "i", "0", "/", "0", "/", "1", "0">>, router1_ip |-> <<"1", "0", ".", "2", "5", "5", ".", "2", "5", "5", ".", "1">>,
       router2_interface |-> <<"G", "i", "0", "/", "0", "/", "1", "0">>, router2_ip |-> <<"1", "0", ".", "2", "5", "5", ".", "2", "5", "5", ".", "2">>,
       subnet_mask |-> <<"2", "5", "5", ".", "2", "5", "5", ".", "2", "5", "5", ".", "2", "5", "2">>] }

GenInit ==
    /\ phase = "input" /\ AddrIdle /\ ParserIdle /\ SynthIdle /\ GenIdle /\ ValIdle
    /\ fusion_routers = <<>>
    /\ ibgp_params \in IbgpParamsPool
    /\ ibgp = Returned(<<>>)

\* the request names one more fusion router
RequestRouter ==
    /\ phase = "input"
    /\ Len(fusion_routers) < MaxRouters
    /\ \E r \in GenRouterPool : fusion_routers' = Append(fusion_routers, r)
    /\ UNCHANGED <<valVars, genVars, synthVars, phase, addrVars, parserVars, ibgp_params, ibgp>>

\* the request lists one more handoff
RequestHandoff ==
    /\ phase = "input"
    /\ Len(handoff_list) < MaxHandoffs
    /\ \E h \in GenHandoffPool : handoff_list' = Append(handoff_list, h)
    /\ UNCHANGED <<valVars, genVars, phase, addrVars, parserVars, ibgpVars, call, synth>>

\* POST /generate with the request
Generate ==
    /\ phase = "input"
    /\ \E vrf_configs \in GenVrfConfigPool, ospf_params \in GenOspfParamsPool :
           /\ request' = [vrf_configs |-> vrf_configs, ospf_params |-> ospf_params]
           /\ response' = generate_config([fusion_routers |-> fusion_routers,
                                           border_nodes |-> BorderNodes,
                                           handoffs |-> handoff_list,
                                           vrf_configs |-> vrf_configs,
                                           ibgp_params |-> ibgp_params,
                                           ospf_params |-> ospf_params])
    /\ phase' = "generated"
    /\ UNCHANGED <<valVars, synthVars, addrVars, parserVars, ibgpVars>>

\* a request is put together and posted, or its handoffs are handed to
\* generate_fusion_router_config directly (Synthesize)
GenNext == RequestRouter \/ RequestHandoff \/ Generate \/ Synthesize

SpecGenerate == GenInit /\ [][GenNext]_vars

\* ------------------------------------------------------------------ C11
\* all neighbor records of one rendered configuration
NeighborsOf(config) == config.bgp_neighbors_default \o Flatten(config.bgp_neighbors_vrf)

\* whether a configuration was rendered (not the no-handoffs text)
Rendered(result) == result.raised = None /\ result.value.kind = "rendered"

\* C11: every BGP neighbor record has next_hop_self true exactly when the
\* router's ibgp_config is present and enabled; in the generate flow that is
\* exactly when iBGP was requested enabled, the request names at least two
\* fusion routers, and a projection with the router's router_id was built.
C11_NextHopSelf ==
    /\ (phase = "synthesized" /\ Rendered(synth)) =>
          \A n \in 1..Len(NeighborsOf(synth.value)) :
              (NeighborsOf(synth.value)[n].next_hop_self = <<TRUE>>)
                  <=> (DOMAIN call.ibgp_config # {} /\ call.ibgp_config.enabled)
    /\ (phase = "generated" /\ response.status = 200) =>
          \A i \in 1..Len(response.configs) :
              Rendered(response.configs[i].config) =>
                 \A n \in 1..Len(NeighborsOf(response.configs[i].config.value)) :
                     (NeighborsOf(response.configs[i].config.value)[n].next_hop_self = <<TRUE>>)
                         <=> /\ IbgpEnabled
                             /\ Len(fusion_routers) >= 2
                             /\ \E k \in 1..Len(build_ibgp_configs(fusion_routers, ibgp_params).value) :
                                    build_ibgp_configs(fusion_routers, ibgp_params).value[k].router_id
                                        = fusion_routers[i].router_id

C11_Witness ==
    /\ phase = "generated"
    /\ response.status = 200
    /\ IbgpEnabled
    /\ Len(fusion_routers) = 2
    /\ \A i \in 1..2 :
          /\ Rendered(response.configs[i].config)
          /\ Len(NeighborsOf(response.configs[i].config.value)) = 1
          /\ NeighborsOf(response.configs[i].config.value)[1].next_hop_self = <<TRUE>>

\* ------------------------------------------------- claim C12
\* the three ValueError messages of build_vrf_config, up to the colon
VrfErrors ==
    {<<"I", "n", "v", "a", "l", "i", "d", " ", "V", "R", "F", " ", "n", "a", "m", "e">>, <<"I", "n", "v", "a", "l", "i", "d", " ", "R", "o", "u", "t", "e", " ", "D", "i", "s", "t", "i", "n", "g", "u", "i", "s", "h", "e", "r">>, <<"I", "n", "v", "a", "l", "i", "d", " ", "R", "T", " ", "E", "x", "p", "o", "r", "t">>,
     <<"I", "n", "v", "a", "l", "i", "d", " ", "R", "T", " ", "I", "m", "p", "o", "r", "t">>}

\* a text made of the given characters only, and not empty
MadeOf(t, cs) == t # <<>> /\ \A i \in 1..Len(t) : t[i] \in cs

\* ASN:NN or IPv4:NN in the words of the interface: a decimal ASN up to
\* 4294967295 or a dotted-quad IPv4 address, a colon, a decimal NN up to 65535
WellFormedRd(t) ==
    LET parts == Split(t, <<":">>)
    IN /\ Len(parts) = 2
       /\ MadeOf(parts[2], Digits) /\ NumLeq(parts[2], <<"6", "5", "5", "3", "5">>)
       /\ \/ MadeOf(parts[1], Digits) /\ NumLeq(parts[1], <<"4", "2", "9", "4", "9", "6", "7", "2", "9", "5">>)
          \/ MadeOf(parts[1], Digits \cup {"."}) /\ ip_address(parts[1]) # NoAddr

\* an entry of vrf_specs that is invalid in the words of the interface
InvalidVrfSpec(v) ==
    \/ ~MadeOf(Get(v, "name", None), Letters \cup Digits \cup {"_", "-"})
    \/ Len(Get(v, "name", None)) > 32
    \/ ~WellFormedRd(Get(v, "rd", None))
    \/ Get(v, "rt_export_enabled", FALSE) /\ ~WellFormedRd(Get(v, "rt_export_value", None))
    \/ Get(v, "rt_import_enabled", FALSE) /\ ~WellFormedRd(Get(v, "rt_import_value", None))

\* a call for a router with a selected handoff, one of whose VRF specs is
\* invalid
InvalidVrfCall ==
    /\ phase = "synthesized"
    /\ Selected # {}
    /\ \E v \in 1..Len(call.vrf_configs) : InvalidVrfSpec(call.vrf_configs[v])

\* C12: when any entry of vrf_specs is invalid (name missing, longer than 32
\* characters or with a character outside letters, digits, _ and -; RD
\* missing or malformed; an enabled RT export/import value malformed),
\* synthesis for a router with a selected handoff fails with a validation
\* error and returns no model, even when every handoff resolves.
C12_InvalidVrfFails ==
    InvalidVrfCall => (synth.raised \in VrfErrors /\ synth.value = <<>>)

\* C12, for the entries build_vrf_config itself refuses: the call fails
\* with that validation error and returns no model
C12_RefusedVrfFails ==
    (/\ phase = "synthesized"
     /\ Selected # {}
     /\ \E v \in 1..Len(call.vrf_configs) :
            build_vrf_config(call.vrf_configs[v]).raised # None)
        => (synth.raised \in VrfErrors /\ synth.value = <<>>)

\* ------------------------------------------------- claims C18, C19
\* the logical lines of the uploaded text
Lines == cleaned_lines(text)

\* the kinds of line the BGP scan tells apart
RouterBgpLine(l) == StartsWith(l, <<"r", "o", "u", "t", "e", "r", " ", "b", "g", "p", " ">>)
BangLine(l) == StartsWith(l, <<"!">>)
VrfAfLine(l, v) ==
    /\ StartsWith(Strip(l), <<"a", "d", "d", "r", "e", "s", "s", "-", "f", "a", "m", "i", "l", "y", " ", "i", "p", "v", "4", " ", "v", "r", "f", " ">>)
    /\ Strip(Item(Split(Strip(l), <<"v", "r", "f", " ">>), 1)) = v
ExitAfLine(l) == StartsWith(Strip(l), <<"e", "x", "i", "t", "-", "a", "d", "d", "r", "e", "s", "s", "-", "f", "a", "m", "i", "l", "y">>)
NeighborLine(l) == StartsWith(Strip(l), <<"n", "e", "i", "g", "h", "b", "o", "r", " ">>) /\ neighbor_match(l) # <<>>

\* line n lies in a `router bgp` block: a `router bgp` line comes before it
\* with no `!` line in between
InBgpBlock(n) ==
    \E r \in 1..(n - 1) :
        /\ RouterBgpLine(Lines[r])
        /\ \A j \in (r + 1)..(n - 1) : ~BangLine(Lines[j])

\* the entries recorded for line n, in the default list and in every VRF list
DefaultEntries(n) ==
    {k \in 1..Len(parsed.bgp.default_vrf_neighbors) :
        parsed.bgp.default_vrf_neighbors[k].line_no = n}
VrfEntries(n) ==
    {<<b, k>> \in (1..Len(parsed.bgp.vrf_neighbors)) \X (1..MaxLines + 1) :
        /\ k <= Len(parsed.bgp.vrf_neighbors[b].neighbors)
        /\ parsed.bgp.vrf_neighbors[b].neighbors[k].line_no = n}

\* C18: a neighbor is in vrf_neighbors[v] only if its line lies after a
\* `router bgp` line and after an `address-family ipv4 vrf v` line, with no
\* `exit-address-family` line and no `!` line between that line and the
\* neighbor line; a neighbor outside any `router bgp` block (after the block
\* was left on `!`) is recorded nowhere.
C18_VrfAttribution ==
    phase # "input" =>
        /\ \A b \in 1..Len(parsed.bgp.vrf_neighbors) :
           \A k \in 1..Len(parsed.bgp.vrf_neighbors[b].neighbors) :
               LET n == parsed.bgp.vrf_neighbors[b].neighbors[k].line_no
               IN \E a \in 1..(n - 1) :
                      /\ VrfAfLine(Lines[a], parsed.bgp.vrf_neighbors[b].name)
                      /\ \E r \in 1..(n - 1) : RouterBgpLine(Lines[r])
                      /\ \A j \in (a + 1)..(n - 1) :
                             ~ExitAfLine(Lines[j]) /\ ~BangLine(Lines[j])
        /\ \A n \in 1..Len(Lines) :
               ~InBgpBlock(n) => (DefaultEntries(n) = {} /\ VrfEntries(n) = {})

\* a neighbor in the address family of VRF RED is recorded under RED
C18_Witness ==
    /\ phase = "uploaded"
    /\ text = <<BgpLines[1], BgpLines[3], BgpLines[5], BgpLines[7]>>
    /\ Len(parsed.bgp.vrf_neighbors) = 1
    /\ parsed.bgp.vrf_neighbors[1].name = <<"R", "E", "D">>
    /\ Len(parsed.bgp.vrf_neighbors[1].neighbors) = 1
    /\ parsed.bgp.vrf_neighbors[1].neighbors[1].line_no = 3

\* line n is a neighbor line scanned in BGP state outside any VRF context,
\* with a default address-family line somewhere before it
DefaultNeighborLine(n) ==
    LET before == bgp_scan(SubSeq(Lines, 1, n - 1), 1, bgp_start)
    IN /\ NeighborLine(Lines[n])
       /\ before.in_bgp
       /\ ~Truthy(before.current_vrf)
       /\ \E j \in 1..(n - 1) : DefaultAfLine(Lines[j])

\* C19: every neighbor line scanned in BGP state outside any VRF context
\* and preceded by a line containing `address-family ipv4` without `vrf`
\* adds exactly one entry to default_vrf_neighbors, also when the same
\* neighbor line text occurs elsewhere in the file.
C19_DefaultNeighborAdded ==
    phase # "input" =>
        \A n \in 1..Len(Lines) :
            DefaultNeighborLine(n) => Cardinality(DefaultEntries(n)) = 1

\* the same for a neighbor line whose text does not occur earlier in the file
C19_FirstOccurrenceAdded ==
    phase # "input" =>
        \A n \in 1..Len(Lines) :
            (DefaultNeighborLine(n) /\ \A j \in 1..(n - 1) : Lines[j] # Lines[n])
                => Cardinality(DefaultEntries(n)) = 1

\* a neighbor line whose text occurred before the default address-family
\* line is left out
C19_RepeatedLineDropped ==
    phase # "input" =>
        \A n \in 1..Len(Lines) :
            (/\ DefaultNeighborLine(n)
             /\ \E j \in 1..(n - 1) : Lines[j] = Lines[n]
             /\ ~\E j \in 1..(index_of(Lines, Lines[n]) - 1) : DefaultAfLine(Lines[j]))
                => DefaultEntries(n) = {}

\* ------------------------------------------------- claim C20
Max(S) == CHOOSE i \in S : \A j \in S : j <= i

\* the lines between line n and the next line starting with `interface `
VlanWindow(n) ==
    LET stops == {j \in (n + 1)..Len(Lines) : StartsWith(Lines[j], <<"i", "n", "t", "e", "r", "f", "a", "c", "e", " ">>)}
    IN (n + 1)..((IF stops = {} THEN Len(Lines) + 1 ELSE Min(stops)) - 1)

\* the sub-lines of that window with the given prefix
SubLines(n, prefix) == {j \in VlanWindow(n) : StartsWith(Strip(Lines[j]), prefix)}

\* what the sub-lines of its own window give the record opened at line n
WindowAddress(n) ==
    LET S == {j \in SubLines(n, <<"i", "p", " ", "a", "d", "d", "r", "e", "s", "s", " ">>) : Len(SplitWS(Strip(Lines[j]))) >= 4}
    IN IF S = {} THEN <<None, None>>
       ELSE <<SplitWS(Strip(Lines[Max(S)]))[3], SplitWS(Strip(Lines[Max(S)]))[4]>>
WindowVrf(n) ==
    LET S == SubLines(n, <<"v", "r", "f", " ", "f", "o", "r", "w", "a", "r", "d", "i", "n", "g", " ">>)
    IN IF S = {} THEN None ELSE Item(Split(Strip(Lines[Max(S)]), <<"v", "r", "f", " ", "f", "o", "r", "w", "a", "r", "d", "i", "n", "g", " ">>), 1)
WindowDescription(n) ==
    LET S == SubLines(n, <<"d", "e", "s", "c", "r", "i", "p", "t", "i", "o", "n", " ">>)
    IN IF S = {} THEN None ELSE Item(SplitOnce(Strip(Lines[Max(S)]), <<"d", "e", "s", "c", "r", "i", "p", "t", "i", "o", "n", " ">>), 1)
WindowBfd(n) ==
    LET S == {j \in SubLines(n, <<"b", "f", "d", " ", "i", "n", "t", "e", "r", "v", "a", "l", " ">>) : bfd_match(Strip(Lines[j])) # <<>>}
    IN IF S = {} THEN <<None, None, None>> ELSE bfd_match(Strip(Lines[Max(S)]))

\* C20: a line starting with `interface ` that is not an `interface Vlan`
\* line closes the current VLAN record: sub-lines after it and before the
\* next `interface Vlan` line change no record, and each record holds only
\* values of the sub-lines between its own `interface Vlan<id>` line and the
\* next `interface ` line.
C20_VlanRecordWindow ==
    phase # "input" =>
        \A k \in 1..Len(parsed.vlan_interfaces) :
            LET r == parsed.vlan_interfaces[k]
                n == r.line_no
            IN /\ StartsWith(Lines[n], <<"i", "n", "t", "e", "r", "f", "a", "c", "e", " ", "V", "l", "a", "n">>)
               /\ <<r.ip_address, r.subnet_mask>> = WindowAddress(n)
               /\ r.vrf = WindowVrf(n)
               /\ r.description = WindowDescription(n)
               /\ r.bfd_enabled = (SubLines(n, <<"b", "f", "d", " ", "i", "n", "t", "e", "r", "v", "a", "l", " ">>) # {})
               /\ <<r.bfd_interval, r.bfd_min_rx, r.bfd_multiplier>> = WindowBfd(n)

\* a description after another interface line is not the VLAN's
C20_Witness ==
    /\ phase = "uploaded"
    /\ text = <<VlanLines[1], VlanLines[3], VlanLines[9], VlanLines[6]>>
    /\ Len(parsed.vlan_interfaces) = 1
    /\ parsed.vlan_interfaces[1].ip_address = <<"1", "0", ".", "1", ".", "1", ".", "1">>
    /\ parsed.vlan_interfaces[1].description = None

\* ------------------------------------------------- claims C16, C17
\* C16: when no handoff of the input has the router's router_id, synthesis
\* returns the no-handoffs marker and no error, whatever the other inputs
\* are: it is returned before the VRF specs are validated.
C16_NoHandoffsMarker ==
    (phase = "synthesized" /\ Selected = {})
        => synth = Returned([kind |-> "text",
                             text |-> no_handoffs_text(call.fusion_router_params.hostname)])

C16_Witness ==
    /\ phase = "synthesized"
    /\ Selected = {}
    /\ handoff_list # <<>>
    /\ \E v \in 1..Len(call.vrf_configs) :
           build_vrf_config(call.vrf_configs[v]).raised # None
    /\ synth.raised = None
    /\ synth.value.kind = "text"

\* the selected handoffs that resolve and name the physical interface
Naming(name) ==
    {k \in Selected : /\ Resolves(handoff_list[k])
                      /\ handoff_list[k].physical_interface = name}

\* a model was rendered for a call in svi mode
SviRendered ==
    /\ SoundCall
    /\ Rendered(synth)
    /\ CallMode = <<"s", "v", "i">>

\* C17: in svi mode the trunk physical-interface list holds at most one
\* record per physical interface name, and that record carries the
\* description and the allowed VLANs of the first resolved handoff naming
\* the interface; later handoffs naming it change nothing.
C17_TrunkFirstWins ==
    SviRendered =>
        LET trunks == synth.value.physical_interfaces
        IN /\ \A i, j \in 1..Len(trunks) : trunks[i].name = trunks[j].name => i = j
           /\ \A k \in Selected :
                  Resolves(handoff_list[k]) =>
                      \E i \in 1..Len(trunks) : trunks[i].name = handoff_list[k].physical_interface
           /\ \A i \in 1..Len(trunks) :
                  /\ Naming(trunks[i].name) # {}
                  /\ LET first == handoff_list[Min(Naming(trunks[i].name))]
                     IN /\ trunks[i].handoff_no = Min(Naming(trunks[i].name))
                        /\ trunks[i].description = <<"P", "h", "y", "s", "i", "c", "a", "l", " ", "l", "i", "n", "k", " ", "t", "o", " ">> \o first.border_hostname
                        /\ trunks[i].allowed_vlans
                               = Get(first, "allowed_vlans", first.vlan_id)

\* two resolved handoffs name the same physical interface with different
\* allowed VLANs and border nodes, and the record is the first one's
C17_Witness ==
    /\ SviRendered
    /\ Len(synth.value.physical_interfaces) = 1
    /\ \E k, l \in Naming(synth.value.physical_interfaces[1].name) :
           /\ k < l
           /\ handoff_list[k].border_hostname # handoff_list[l].border_hostname
           /\ "allowed_vlans" \notin DOMAIN handoff_list[k]
           /\ "allowed_vlans" \in DOMAIN handoff_list[l]
           /\ synth.value.physical_interfaces[1].allowed_vlans = handoff_list[k].vlan_id

\* ------------------------------------------------- validate_route_distinguisher
\* the pieces a route distinguisher text is typed from: numerals at and
\* around the limits, addresses, a word, the colon and a newline
RdPieces ==
    { <<"6", "5", "0", "0", "0">>, <<"4", "2", "9", "4", "9", "6", "7", "2", "9", "5">>, <<"4", "2", "9", "4", "9", "6", "7", "2", "9", "6">>, <<"9", "9", "9", "9", "9", "9", "9", "9", "9", "9", "9">>, <<"a", "b", "c">>,
      <<"1", "0", ".", "0", ".", "0", ".", "1">>, <<"2", "5", "6", ".", "0", ".", "0", ".", "1">>, <<":">>, <<"1", "0", "0">>, <<"6", "5", "5", "3", "5">>, <<"6", "5", "5", "3", "6">>, <<"\n">> }

\* the text typed so far
RdText == Join(rd_text, <<>>)

RdInit ==
    /\ phase = "input" /\ AddrIdle /\ ParserIdle /\ IbgpIdle /\ SynthIdle /\ GenIdle /\ ValIdle

\* one more piece of the text
TypeRd ==
    /\ phase = "input"
    /\ Len(rd_text) < MaxPieces
    /\ \E p \in RdPieces : rd_text' = Append(rd_text, p)
    /\ UNCHANGED <<phase, addrVars, parserVars, ibgpVars, synthVars, genVars,
                   rd_result, ospf_request, ospf_edits, ospf>>

\* validate_route_distinguisher(rd) on the text
ValidateRd ==
    /\ phase = "input"
    /\ rd_result' = <<validate_route_distinguisher(RdText)>>
    /\ phase' = "validated"
    /\ UNCHANGED <<addrVars, parserVars, ibgpVars, synthVars, genVars,
                   rd_text, ospf_request, ospf_edits, ospf>>

RdNext == TypeRd \/ ValidateRd

SpecRd == RdInit /\ [][RdNext]_vars

\* ------------------------------------------------- build_ospf_configs
\* ospf_params as the request documents them: physical mode, SVI mode with
\* its VLAN, and physical mode with MD5 authentication
OspfExample ==
    [enabled |-> TRUE, process_id |-> PyInt(<<"1">>), area |-> PyInt(<<"0">>),
     interface_mode |-> <<"p", "h", "y", "s", "i", "c", "a", "l">>,
     router1_interface |-> <<"G", "i", "g", "a", "b", "i", "t", "E", "t", "h", "e", "r", "n", "e", "t", "0", "/", "0", "/", "1", "0">>, router1_ip |-> <<"1", "0", ".", "2", "5", "5", ".", "2", "5", "5", ".", "1">>,
     router2_interface |-> <<"G", "i", "g", "a", "b", "i", "t", "E", "t", "h", "e", "r", "n", "e", "t", "0", "/", "0", "/", "1", "1">>, router2_ip |-> <<"1", "0", ".", "2", "5", "5", ".", "2", "5", "5", ".", "2">>,
     subnet_mask |-> <<"2", "5", "5", ".", "2", "5", "5", ".", "2", "5", "5", ".", "2", "5", "2">>]

OspfExamples ==
    { OspfExample,
      [OspfExample EXCEPT !.interface_mode = <<"s", "v", "i">>] @@ ("vlan_id" :> PyInt(<<"9", "9", "9">>)),
      OspfExample @@ [authentication |-> <<"m", "d", "5">>, md5_key |-> <<"s", "e", "c", "r", "e", "t">>,
                      md5_key_id |-> PyInt(<<"1">>)] }

\* the changes a request may make to an example: a field and its new value,
\* Missing for a field the request leaves out
OspfEdits ==
    { [field |-> "process_id", value |-> PyInt(<<"0">>)],
      [field |-> "process_id", value |-> PyInt(<<"6", "5", "5", "3", "5">>)],
      [field |-> "process_id", value |-> PyInt(<<"6", "5", "5", "3", "6">>)],
      [field |-> "process_id", value |-> <<"1">>],
      [field |-> "process_id", value |-> Missing],
      [field |-> "area", value |-> PyInt(<<"4", "2", "9", "4", "9", "6", "7", "2", "9", "5">>)],
      [field |-> "area", value |-> PyInt(<<"4", "2", "9", "4", "9", "6", "7", "2", "9", "6">>)],
      [field |-> "area", value |-> PyInt(<<"-", "1">>)],
      [field |-> "router1_ip", value |-> <<"1", "0", ".", "2", "5", "5", ".", "2", "5", "5", ".", "2", "5", "6">>],
      [field |-> "router1_ip", value |-> <<"1", "9", "2", ".", "1", "6", "8", ".", "7", ".", "9">>],
      [field |-> "router2_ip", value |-> <<"b", "a", "d">>],
      [field |-> "subnet_mask", value |-> <<"2", "5", "5", ".", "2", "5", "5", ".", "2", "5", "5", ".", "0">>],
      [field |-> "subnet_mask", value |-> <<"2", "5", "5", ".", "2", "5", "5", ".", "0", ".", "0">>],
      [field |-> "subnet_mask", value |-> <<"0", ".", "0", ".", "0", ".", "2", "5", "5">>],
      [field |-> "subnet_mask", value |-> <<"2", "5", "5", ".", "0", ".", "2", "5", "5", ".", "0">>],
      [field |-> "subnet_mask", value |-> <<"2", "4">>],
      [field |-> "subnet_mask", value |-> PyInt(<<"2", "4">>)],
      [field |-> "router1_interface", value |-> <<"E", "t", "h", "e", "r", "n", "e", "t", "1">>],
      [field |-> "router1_interface", value |-> <<"g", "i", "0", "/", "1">>],
      [field |-> "router2_interface", value |-> <<"V", "l", "a", "n", "1", "0">>],
      [field |-> "router2_interface", value |-> <<"T", "e", "1", "/", "0", "/", "1">>],
      [field |-> "interface_mode", value |-> <<"s", "v", "i">>],
      [field |-> "interface_mode", value |-> <<"s", "u", "b", "i", "n", "t", "e", "r", "f", "a", "c", "e">>],
      [field |-> "interface_mode", value |-> Missing],
      [field |-> "vlan_id", value |-> PyInt(<<"0">>)],
      [field |-> "vlan_id", value |-> PyInt(<<"4", "0", "9", "4">>)],
      [field |-> "vlan_id", value |-> PyInt(<<"4", "0", "9", "5">>)],
      [field |-> "authentication", value |-> <<"m", "d", "5">>],
      [field |-> "md5_key", value |-> <<>>],
      [field |-> "md5_key", value |-> <<"s", "e", "c", "r", "e", "t">>],
      [field |-> "md5_key_id", value |-> PyInt(<<"0">>)],
      [field |-> "md5_key_id", value |-> PyInt(<<"2", "5", "5">>)],
      [field |-> "md5_key_id", value |-> PyInt(<<"2", "5", "6">>)] }

\* the dict with one field set, or left out
Edited(params, e) ==
    IF e.value = Missing
    THEN [k \in DOMAIN params \ {e.field} |-> params[k]]
    ELSE (e.field :> e.value) @@ params

\* the fusion_routers lists of a request: one router, or the pair
OspfRouterLists ==
    { <<CHOOSE r \in SynthRouterPool : r.router_id = 1>>,
      <<CHOOSE r \in SynthRouterPool : r.router_id = 1,
        CHOOSE r \in SynthRouterPool : r.router_id = 2>> }

OspfInit ==
    /\ phase = "input" /\ AddrIdle /\ ParserIdle /\ IbgpIdle /\ SynthIdle /\ GenIdle
    /\ rd_text = <<>> /\ rd_result = <<>>
    /\ ospf_request \in OspfExamples
    /\ ospf_edits = 0
    /\ ospf = Returned(<<>>)

\* the request changes one field of its ospf_params
EditOspf ==
    /\ phase = "input"
    /\ ospf_edits < MaxEdits
    /\ \E e \in OspfEdits : ospf_request' = Edited(ospf_request, e)
    /\ ospf_edits' = ospf_edits + 1
    /\ UNCHANGED <<phase, addrVars, parserVars, ibgpVars, synthVars, genVars,
                   rd_text, rd_result, ospf>>

\* build_ospf_configs(fusion_routers, ospf_params)
BuildOspf ==
    /\ phase = "input"
    /\ \E routers \in OspfRouterLists :
           /\ fusion_routers' = routers
           /\ ospf' = build_ospf_configs(routers, ospf_request)
    /\ phase' = "ospf_built"
    /\ UNCHANGED <<addrVars, parserVars, ibgp_params, ibgp, synthVars, genVars,
                   rd_text, rd_result, ospf_request, ospf_edits>>

OspfNext == EditOspf \/ BuildOspf

SpecOspf == OspfInit /\ [][OspfNext]_vars

\* ------------------------------------------------- claim C13
\* C13: validate_route_distinguisher accepts a string exactly when it has
\* the form ASN:NN with ASN <= 4294967295 and NN <= 65535, or IPv4:NN with a
\* valid IPv4 address and NN <= 65535; every other string, the empty one
\* included, is rejected.
C13_RdFormat ==
    phase = "validated" => (rd_result = <<TRUE>> <=> WellFormedRd(RdText))

\* the same for every text that does not end in a newline
C13_RdFormatNoNewline ==
    (phase = "validated" /\ (RdText = <<>> \/ RdText[Len(RdText)] # "\n"))
        => (rd_result = <<TRUE>> <=> WellFormedRd(RdText))

\* a text ending in a newline is accepted exactly when the text before that
\* newline has one of the two forms
C13_RdNewline ==
    (phase = "validated" /\ RdText # <<>> /\ RdText[Len(RdText)] = "\n")
        => (rd_result = <<TRUE>>
               <=> WellFormedRd(SubSeq(RdText, 1, Len(RdText) - 1)))

\* ------------------------------------------------- claims C14, C15
\* an int between two numerals
IntIn(v, lo, hi) == v # None /\ IsInt(v) /\ IntBetween(v, lo, hi)

\* a dotted-decimal netmask: four octets, ones and then zeros
DottedNetmask(t) ==
    LET a == ip_address(t)
    IN /\ IsStr(t)
       /\ a # NoAddr
       /\ \A i \in 1..4 : a[i] \in {0, 128, 192, 224, 240, 248, 252, 254, 255}
       /\ \A i \in 1..3 : a[i] # 255 => a[i + 1] = 0

\* every parameter check the interface lists
OspfChecksPass(p) ==
    /\ IntIn(Get(p, "process_id", None), <<"1">>, <<"6", "5", "5", "3", "5">>)
    /\ IntIn(Get(p, "area", None), <<"0">>, <<"4", "2", "9", "4", "9", "6", "7", "2", "9", "5">>)
    /\ ip_address(Get(p, "router1_ip", None)) # NoAddr
    /\ ip_address(Get(p, "router2_ip", None)) # NoAddr
    /\ DottedNetmask(Get(p, "subnet_mask", None))
    /\ interface_pattern_match(Get(p, "router1_interface", None))
    /\ interface_pattern_match(Get(p, "router2_interface", None))
    /\ Get(p, "interface_mode", None) \in {<<"s", "v", "i">>, <<"s", "u", "b", "i", "n", "t", "e", "r", "f", "a", "c", "e">>}
           => IntIn(Get(p, "vlan_id", None), <<"1">>, <<"4", "0", "9", "4">>)
    /\ Get(p, "authentication", None) = <<"m", "d", "5">>
           => /\ Get(p, "md5_key", None) \notin {None, <<>>}
              /\ IntIn(Get(p, "md5_key_id", None), <<"1">>, <<"2", "5", "5">>)

\* build_ospf_configs was called with enabled params and two routers
OspfBuilt ==
    /\ phase = "ospf_built"
    /\ Get(ospf_request, "enabled", FALSE)
    /\ Len(fusion_routers) >= 2

\* C14: with OSPF enabled and at least two fusion routers,
\* build_ospf_configs returns projections only if every parameter check
\* passes (process id, area, both endpoint addresses, a dotted-decimal
\* netmask, both interface names, the VLAN id for svi/subinterface, key and
\* key id for md5); any violation fails with an error and yields no
\* projection for either router.
C14_OspfChecks ==
    (OspfBuilt /\ ~OspfChecksPass(ospf_request))
        => (ospf.raised # None /\ ospf.value = <<>>)

\* the same with the subnet mask check as the code makes it: a netmask, a
\* host mask or a prefix length up to 32
C14_OspfChecksAnyMask ==
    (/\ OspfBuilt
     /\ ~OspfChecksPass((("subnet_mask" :> <<"2", "5", "5", ".", "2", "5", "5", ".", "2", "5", "5", ".", "2", "5", "2">>) @@ ospf_request))
            \/ ~subnet_mask_ok(Get(ospf_request, "subnet_mask", None)))
        => (ospf.raised # None /\ ospf.value = <<>>)

\* bitwise and of two octets
RECURSIVE BitAnd(_, _)
BitAnd(x, y) ==
    IF x = 0 \/ y = 0 THEN 0
    ELSE 2 * BitAnd(x \div 2, y \div 2) + (x % 2) * (y % 2)

\* two projections were returned
OspfPair == OspfBuilt /\ ospf.raised = None /\ Len(ospf.value) = 2

\* they share process id, area, network address and wildcard mask, and
\* projection i carries router i's own interface name and address
OspfShared ==
    /\ \A f \in {"process_id", "area", "network_address", "wildcard_mask"} :
           /\ ospf.value[1][f] = ospf.value[2][f]
    /\ ospf.value[1].process_id = ospf_request.process_id
    /\ ospf.value[1].area = ospf_request.area
    /\ ospf.value[1].interface_name = ospf_request.router1_interface
    /\ ospf.value[1].ip_address = ospf_request.router1_ip
    /\ ospf.value[2].interface_name = ospf_request.router2_interface
    /\ ospf.value[2].ip_address = ospf_request.router2_ip

\* network address and wildcard mask against the octets of the subnet mask
OspfDerived ==
    IsStr(ospf_request.subnet_mask) =>
        LET m == ip_address(ospf_request.subnet_mask)
            a == ip_address(ospf_request.router1_ip)
        IN /\ ip_address(ospf.value[1].network_address) = [i \in 1..4 |-> BitAnd(a[i], m[i])]
           /\ ip_address(ospf.value[1].wildcard_mask) = [i \in 1..4 |-> 255 - m[i]]

\* C15: for accepted OSPF parameters with two fusion routers, both
\* projections carry the same process id, area, network address and
\* wildcard mask; the network address is router 1's address under the shared
\* mask, each wildcard octet is 255 minus the mask's octet, and projection i
\* carries router i's own interface name and address.
C15_OspfProjections == OspfPair => (OspfShared /\ OspfDerived)

\* the same for parameters whose subnet mask is a dotted-decimal netmask
C15_OspfProjectionsNetmask ==
    (OspfPair /\ DottedNetmask(ospf_request.subnet_mask)) => (OspfShared /\ OspfDerived)

\* whatever the accepted mask, the shared fields and the endpoints are right
C15_OspfSharedAnyMask == OspfPair => OspfShared

\* ------------------------------------------------- claim C21
\* the `interface Loopback0` lines, and the lines starting with `interface `
Loopback0Lines == {j \in 1..Len(Lines) : RStrip(Lines[j]) = <<"i", "n", "t", "e", "r", "f", "a", "c", "e", " ", "L", "o", "o", "p", "b", "a", "c", "k", "0">>}
InterfaceLines == {j \in 1..Len(Lines) : StartsWith(Lines[j], <<"i", "n", "t", "e", "r", "f", "a", "c", "e", " ">>)}

\* the lines of the window that opens after line n and ends at the next of
\* the given lines, that give an address
AddressLines(n, ends) ==
    LET after == {j \in ends : j > n}
        last == (IF after = {} THEN Len(Lines) + 1 ELSE Min(after)) - 1
    IN {j \in (n + 1)..last :
           /\ StartsWith(Lines[j], <<" ", "i", "p", " ", "a", "d", "d", "r", "e", "s", "s", " ">>)
           /\ Len(SplitWS(Strip(Lines[j]))) >= 3}

\* the addresses those lines give
Addresses(S) == {SplitWS(Strip(Lines[j]))[3] : j \in S}

\* C21: the inside-Loopback0 state ends at the next line starting with
\* `interface ` after the `interface Loopback0` line: loopback0_ip is never
\* taken from an ` ip address ` line after a later `interface ` line, and is
\* absent when no address line comes before that next interface line.
C21_LoopbackWindow ==
    (phase # "input" /\ Loopback0Lines # {}) =>
        LET S == AddressLines(Min(Loopback0Lines), InterfaceLines)
        IN /\ S = {} => parsed.loopback0_ip = None
           /\ parsed.loopback0_ip # None => parsed.loopback0_ip \in Addresses(S)

\* the lines that begin like the Loopback0 line, and the interface lines
\* that do not
Loopback0Prefixed == {j \in 1..Len(Lines) : StartsWith(Lines[j], <<"i", "n", "t", "e", "r", "f", "a", "c", "e", " ", "L", "o", "o", "p", "b", "a", "c", "k", "0">>)}
OtherInterfaceLines == InterfaceLines \ Loopback0Prefixed

\* the same with the window as the code keeps it: it opens at the first line
\* that begins with `interface Loopback0` and ends at the next interface
\* line that does not; the address is the first one in it
C21_LoopbackPrefixWindow ==
    phase # "input" =>
        IF Loopback0Prefixed = {} THEN parsed.loopback0_ip = None
        ELSE LET S == AddressLines(Min(Loopback0Prefixed), OtherInterfaceLines)
             IN parsed.loopback0_ip
                    = (IF S = {} THEN None ELSE SplitWS(Strip(Lines[Min(S)]))[3])

\* ------------------------------------------------- claim C22
\* the record has the fields of the call's mode, from the handoff's fields
\* of that mode, and none of another mode
ModeFields(rec, h) ==
    IF CallMode = <<"r", "o", "u", "t", "e", "d">>
    THEN /\ rec.name = h.interface_name
         /\ rec.vlan_id = Missing /\ rec.parent_interface = Missing
         /\ rec.subif_id = Missing /\ rec.encapsulation = Missing
    ELSE IF CallMode = <<"s", "v", "i">>
    THEN /\ rec.vlan_id = h.vlan_id
         /\ rec.name = Missing /\ rec.parent_interface = Missing
         /\ rec.subif_id = Missing /\ rec.encapsulation = Missing
    ELSE /\ rec.parent_interface = h.interface_name
         /\ rec.subif_id = h.subif_id
         /\ rec.name = Missing /\ rec.vlan_id = Missing

\* C22: all interface records of one synthesis call have the same kind, the
\* interface_mode of the first selected handoff, and every handoff of the
\* router is processed under that mode, whatever its own interface_mode is.
C22_OneMode ==
    (phase = "synthesized" /\ Rendered(synth)) =>
        LET out == synth.value.interfaces
        IN /\ synth.value.interface_mode = CallMode
           /\ \A j \in 1..Len(out) :
                 /\ out[j].type = CallMode
                 /\ out[j].handoff_no \in Selected
                 /\ ModeFields(out[j], handoff_list[out[j].handoff_no])
           /\ \A k \in Selected : Resolves(handoff_list[k]) => From(out, k) # {}
           /\ CallMode # <<"s", "v", "i">> =>
                 synth.value.vlans = <<>> /\ synth.value.physical_interfaces = <<>>

\* a rendered call in which a later handoff of the router names another mode
\* than the first one and has its interface record
C22_Witness ==
    /\ phase = "synthesized"
    /\ Rendered(synth)
    /\ \E k \in Selected :
          /\ handoff_list[k].interface_mode # CallMode
          /\ From(synth.value.interfaces, k) # {}

\* ------------------------------------------------- claim C23
\* the BFD values of a VLAN record that are absent
AbsentTimers(r) ==
    {f \in {"bfd_interval", "bfd_min_rx", "bfd_multiplier"} : r[f] = None}

\* C23: in every VLAN interface of a parsed model, bfd_enabled is true only
\* if bfd_interval, bfd_min_rx and bfd_multiplier are all present.
C23_BfdTimersPresent ==
    phase # "input" =>
        \A k \in 1..Len(parsed.vlan_interfaces) :
            parsed.vlan_interfaces[k].bfd_enabled
                => AbsentTimers(parsed.vlan_interfaces[k]) = {}

\* the other way round: a record with any of the three values has all three
\* and has bfd_enabled true; and an enabled one without them has only
\* `bfd interval ` sub-lines that the pattern does not match
C23_TimersImplyEnabled ==
    phase # "input" =>
        \A k \in 1..Len(parsed.vlan_interfaces) :
            LET r == parsed.vlan_interfaces[k]
                S == SubLines(r.line_no, <<"b", "f", "d", " ", "i", "n", "t", "e", "r", "v", "a", "l", " ">>)
            IN /\ AbsentTimers(r) = {} \/ Cardinality(AbsentTimers(r)) = 3
               /\ AbsentTimers(r) = {} => r.bfd_enabled
               /\ (r.bfd_enabled /\ AbsentTimers(r) # {})
                     <=> (S # {} /\ \A j \in S : bfd_match(Strip(Lines[j])) = <<>>)

\* the synthesizer's interface record copies the four BFD fields of the VLAN
\* record as they are
C23_BfdCopied ==
    phase # "input" =>
        \A k \in 1..Len(parsed.vlan_interfaces) : \A mode \in InterfaceModes :
            LET r == parsed.vlan_interfaces[k]
                d == interface_data(mode, Handoff(<<"b", "n", "-", "0", "1">>, r.vlan, 1, mode, None, PortA),
                                    1, <<"b", "n", "-", "0", "1">>, r, calculate_fusion_router_ip(r.ip_address))
            IN <<d.bfd_enabled, d.bfd_interval, d.bfd_min_rx, d.bfd_multiplier>>
                   = <<r.bfd_enabled, r.bfd_interval, r.bfd_min_rx, r.bfd_multiplier>>

====
